---------------------------- MODULE Spec2Model ----------------------------
(***************************************************************************)
(* A model of the sambo scheduler: the site calendar (calendar.AddHours),  *)
(* the greedy schedule builder that is the fitness function of the genetic *)
(* algorithm (generateIndividualSchedule, assignBestWorker,                *)
(* calculateWorkersFitness) and the genetic driver (generatePopulation,    *)
(* transmogrifyPopulation, generatePopulationSchedules, sortPopulation).   *)
(*                                                                         *)
(* Units.  An instant is a number of seconds since 00:00 of the Monday of  *)
(* the week in which the schedule starts (main sets scheduleStartTime to   *)
(* Friday 2020-12-18 00:00).  time.Time{} is ZeroTime, which lies before   *)
(* every instant.  A float32 number of hours (duration, lag, driving time) *)
(* is an integer number of hundredths of an hour; all the arithmetic of    *)
(* AddHours is then exact, and differs from the float arithmetic of the    *)
(* source by less than the second that time.Duration() truncates and the   *)
(* final rounding to 10 minutes absorbs.  A worker's AHP score is carried  *)
(* in units of 1/FP.  Positions lie on one meridian and are given in       *)
(* metres, so that the haversine distance is the difference of positions.  *)
(***************************************************************************)
EXTENDS Integers, Sequences, FiniteSets, TLC

VARIABLES
    db,             \* tasksDB, workersDB, projectsDB, projectFamiliarityDB
    individual,     \* the individual a pool goroutine is evaluating
    slot,           \* index of the next task slot of the current pass
    workerAssigned, \* generateIndividualSchedule's flag of the same name
    pc,             \* position in the code
    mapRange,       \* the order in which range visits tasksDB and workersDB
    rand,           \* state of the math/rand generator
    population,     \* main's population: individuals and hashes
    newPopulation,  \* transmogrifyPopulation's newPopulation
    remainingIndividualsNumber, \* transmogrifyPopulation's counter
    generation,     \* main's loop counter i
    stagnant,       \* stagnantGenerationsNumber and stagnantGenerationsFitness
    bestFitness,    \* the "Best fitness =" values main has logged
    breedTurns,     \* history: the turns of transmogrifyPopulation's loop in this call
    tourneySampleSize,      \* the settings of the genetic algorithm that main
    crossoverParentsNumber, \* draws again when the best fitnesses stagnate
    maxCrossoverLength,
    maxMutatedGenes,
    mutationTypePreference, \* in tenths
    tourney,        \* a call of tourneySelect: arguments, locals and, as history,
                    \* the indices selected
    crossover,      \* a call of crossoverIndividualsOX1: argument, locals and result
    calendar,       \* a call of Site.AddHours: receiver, arguments and result
    schedules,      \* a call of generatePopulationSchedules: settings, slice, locals
    routines,       \* the goroutines the call has started
    chanIndividualIn,   \* the channel to the goroutines
    chanIndividualOut,  \* the channel from the goroutines
    dispatch        \* history: the slice at the call, and what happened to each slot

buildVars == <<individual, slot, workerAssigned>>
settings ==
    <<tourneySampleSize, crossoverParentsNumber, maxCrossoverLength, maxMutatedGenes,
      mutationTypePreference>>
driverVars ==
    <<mapRange, rand, population, newPopulation, remainingIndividualsNumber,
      generation, stagnant, bestFitness, breedTurns, settings, tourney, crossover>>
calVars == <<calendar>>
poolVars == <<schedules, routines, chanIndividualIn, chanIndividualOut, dispatch>>
vars == <<db, pc, buildVars, driverVars, calVars, poolVars>>

---------------------------------------------------------------------------
(* Helpers of the Go runtime the code relies on.                           *)

Min(a, b) == IF a < b THEN a ELSE b
Max(a, b) == IF a > b THEN a ELSE b
Abs(a) == IF a < 0 THEN -a ELSE a

Range(s) == {s[i] : i \in DOMAIN s}

\* All orders of a finite set, as sequences without repetition.
Perms(S) ==
    {p \in [1..Cardinality(S) -> S] : \A i, j \in DOMAIN p : i # j => p[i] # p[j]}

\* time.Time{}.
ZeroTime == -1
IsZero(t) == t = ZeroTime

SecondsPerDay == 86400
SecondsPerHour == 3600
\* Seconds in a hundredth of an hour.
SecondsPerCentiHour == 36

Monday == 0
Thursday == 3
Friday == 4
Saturday == 5
Sunday == 6

DayOf(t) == t \div SecondsPerDay
Weekday(t) == DayOf(t) % 7
\* time.Date(t.Year(), t.Month(), t.Day(), clock...): the day of t at a clock time.
DateAt(t, clock) == DayOf(t) * SecondsPerDay + clock
\* t.AddDate(0, 0, days)
AddDate(t, days) == t + days * SecondsPerDay
\* An instant given as week, weekday and clock time "hh:mm".
At(week, weekday, hh, mm) ==
    (week * 7 + weekday) * SecondsPerDay + hh * SecondsPerHour + mm * 60

---------------------------------------------------------------------------
(* calendar.Site.AddHours                                                  *)

timeRoundingSeconds == 600

\* A site: DailyStartTime and DailyEndTime are clock times in seconds after
\* midnight, Holidays is a set of instants (the keys of the Holidays map).
Site(dailyStart, dailyEnd, holidays) ==
    [DailyStartTime |-> dailyStart, DailyEndTime |-> dailyEnd, Holidays |-> holidays]

\* Lines 37-41: move startTime into the working window of its day.
MoveToWindow(site, startTime) ==
    LET todayStartTime == DateAt(startTime, site.DailyStartTime)
        todayEndTime == DateAt(startTime, site.DailyEndTime)
    IN  IF startTime < todayStartTime THEN todayStartTime
        ELSE IF startTime > todayEndTime THEN AddDate(todayStartTime, 1)
        ELSE startTime

\* Lines 44-53: move startTime to the first working day.
RECURSIVE FirstWorkday(_, _)
FirstWorkday(site, startTime) ==
    IF Weekday(startTime) = Saturday \/ Weekday(startTime) = Sunday
    THEN FirstWorkday(site, AddDate(startTime, 1))
    ELSE IF DateAt(startTime, 0) \in site.Holidays
    THEN FirstWorkday(site, AddDate(startTime, 1))
    ELSE startTime

\* float32(hours-0.0001): float32 has a 24 bit mantissa, so above 2048 hours
\* the difference rounds back to hours and the correction is lost.
EpsilonLostFrom == 204800

\* Line 63: int(math.Floor(float64(hours-0.0001) / workingHoursPerDay)), with
\* hours in hundredths and the working day in seconds:
\* (h/100 - 1/10000) / (w/3600) = (900h - 9) / (25w).
WholeDays(hours, workingSecondsPerDay) ==
    IF hours <= EpsilonLostFrom
    THEN (900 * hours - 9) \div (25 * workingSecondsPerDay)
    ELSE (36 * hours) \div workingSecondsPerDay

\* One iteration of the loop of lines 75-84 on <<endTime, workingDays>>; the
\* loop has ended when workingDays has reached totalDays.
DayStep(site, totalDays, s) ==
    IF s[2] >= totalDays THEN s
    ELSE LET endTime == AddDate(s[1], 1)
         IN  IF Weekday(endTime) = Saturday THEN <<AddDate(endTime, 2), s[2]>>
             ELSE IF endTime \in site.Holidays THEN <<AddDate(endTime, 1), s[2]>>
             ELSE <<endTime, s[2] + 1>>

\* n iterations of the loop (evaluated by halving, the result is that of n
\* steps in sequence).
RECURSIVE DaySteps(_, _, _, _)
DaySteps(site, totalDays, s, n) ==
    IF n <= 0 THEN s
    ELSE IF n = 1 THEN DayStep(site, totalDays, s)
    ELSE LET half == DaySteps(site, totalDays, s, n \div 2)
         IN  IF half[2] >= totalDays THEN half
             ELSE DaySteps(site, totalDays, half, n - n \div 2)

\* The loop of lines 75-84 run to its end: each counted day takes at most two
\* iterations but for the holidays, so this many iterations end it.
AdvanceWorkingDays(site, endTime, totalDays) ==
    DaySteps(site, totalDays, <<endTime, 0>>,
             2 * Max(totalDays, 0) + Cardinality(site.Holidays) + 1)[1]

\* Lines 95-97: round up to timeRoundingSeconds.
RoundUp(endTime) ==
    LET truncated == endTime - (endTime % timeRoundingSeconds)
    IN  IF endTime # truncated THEN truncated + timeRoundingSeconds ELSE endTime

\* Lines 56-72: the working days the hours span from startTime, a working
\* instant; one more when the rest does not fit before today's end.
TotalDays(site, startTime, hours) ==
    LET workingSecondsPerDay == site.DailyEndTime - site.DailyStartTime
        totalDays == WholeDays(hours, workingSecondsPerDay)
        seconds == hours * SecondsPerCentiHour
    IN  IF startTime + (seconds - totalDays * workingSecondsPerDay)
              > DateAt(startTime, site.DailyEndTime)
        THEN totalDays + 1 ELSE totalDays

\* Lines 74-99: the end, totalDays working days after the day of startTime.
EndTime(site, startTime, hours, totalDays) ==
    LET workingSecondsPerDay == site.DailyEndTime - site.DailyStartTime
        remainingSeconds ==
            hours * SecondsPerCentiHour - (totalDays - 1) * workingSecondsPerDay
                - (DateAt(startTime, site.DailyEndTime) - startTime)
    IN  RoundUp(AdvanceWorkingDays(site, DateAt(startTime, site.DailyStartTime), totalDays)
                    + remainingSeconds)

\* Lines 56-99, for a startTime already moved to a working instant.
AddWorkingHours(site, startTime, hours) ==
    EndTime(site, startTime, hours, TotalDays(site, startTime, hours))

\* AddHours(startTime, hours), hours in hundredths of an hour.
AddHours(site, startTime0, hours) ==
    AddWorkingHours(site, FirstWorkday(site, MoveToWindow(site, startTime0)), hours)


---------------------------------------------------------------------------
(* The in-memory reference DB and the constants of the driver.             *)

tasksDB == db.tasks
workersDB == db.workers
projectsDB == db.projects
projectFamiliarityDB == db.familiarity

\* main: time.Date(2020, 12, 18, 0, 0, 0, 0, ...), a Friday.
scheduleStartTime == At(0, Friday, 0, 0)

\* deadend, in hours.
deadend == 10000
\* pinnedDateTimeSnap, in hundredths of an hour (8 hours).
pinnedDateTimeSnap == 800
\* maxValueDriving and maxValueDelay, in 1/hour.
maxValueDriving == 4
maxValueDelay == 10
\* The AHP weights, in tenths: weightDistance = 1, weightDelay = 1,
\* weightProjectFamiliarity = 0.1, weightDemand = 0.5.
weightDistance == 10
weightDelay == 10
weightProjectFamiliarity == 1
weightDemand == 5
\* location.drivingSpeed, km/h.
drivingSpeed == 20
\* math.MaxFloat32, above every score and every fitness of the model.
MaxFloat32 == 2147483647
\* The unit of a worker's AHP score and of its four values is 1/FP.
FP == 100000

\* A task of tasksDB.  prerequisites maps a task ID to lag hours (hundredths).
Task(project, validWorkers, prerequisites, duration, idealWorkerCount, pinnedDateTime, pinnedWorkerIDs) ==
    [project |-> project, validWorkers |-> validWorkers,
     prerequisites |-> prerequisites, duration |-> duration,
     idealWorkerCount |-> idealWorkerCount, pinnedDateTime |-> pinnedDateTime,
     pinnedWorkerIDs |-> pinnedWorkerIDs]

\* A worker of workersDB: its home position and its time off.
Worker(latitude, blockedRanges) ==
    [latitude |-> latitude, blockedRanges |-> blockedRanges]

Project(latitude, site) == [latitude |-> latitude, site |-> site]

NoPrerequisites == [t \in {} |-> 0]

TaskIDs == DOMAIN tasksDB
WorkerIDs == DOMAIN workersDB

siteOf(taskID) == projectsDB[tasksDB[taskID].project].site

\* location.CalcDrivingTime in thousandths of an hour: metres / 1000 km,
\* divided by drivingSpeed km/h.
CalcDrivingTime(latitude1, latitude2) == Abs(latitude1 - latitude2) \div drivingSpeed

\* calculateWorkersDemand: the number of tasks a worker is valid for; the
\* demand is this number over len(tasksDB).
calculateWorkersDemand(workerID) ==
    Cardinality({t \in TaskIDs : workerID \in tasksDB[t].validWorkers})

---------------------------------------------------------------------------
(* Individuals.                                                            *)

ScheduledTask(taskID) ==
    [taskID |-> taskID, startTime |-> ZeroTime, stopTime |-> ZeroTime,
     assignees |-> <<>>, numPrerequisites |-> Cardinality(DOMAIN tasksDB[taskID].prerequisites)]

ScheduledWorker(workerID) ==
    [workerID |-> workerID, availableAt |-> scheduleStartTime,
     latitude |-> workersDB[workerID].latitude, fitness |-> 0, valueDelay |-> 0,
     valueDriving |-> 0, valueProjectFamiliarity |-> 0, valueDemand |-> 0]

\* generateIndividual: taskOrder is rand.Perm over the tasks in the iteration
\* order of the tasksDB map, workerOrder is the iteration order of workersDB.
generateIndividual(taskOrder, workerOrder) ==
    [tasks |-> [i \in DOMAIN taskOrder |-> ScheduledTask(taskOrder[i])],
     workers |-> [i \in DOMAIN workerOrder |-> ScheduledWorker(workerOrder[i])],
     fitness |-> 0]

\* resetIndividual: the task IDs and the order of the workers are kept.
resetIndividual(ind) ==
    [ind EXCEPT
        !.tasks = [i \in DOMAIN ind.tasks |-> ScheduledTask(ind.tasks[i].taskID)],
        !.workers = [i \in DOMAIN ind.workers |-> ScheduledWorker(ind.workers[i].workerID)]]

\* copyIndividual copies tasks, workers and fitness: the copy is equal.
copyIndividual(oldIndividual) ==
    [tasks |-> oldIndividual.tasks, workers |-> oldIndividual.workers,
     fitness |-> oldIndividual.fitness]

---------------------------------------------------------------------------
(* sort.Slice.  Below 7 elements every Go release sorts by insertion, so    *)
(* equal elements keep their order.  keys[i] is the key of s[i]; the result *)
(* is in ascending order of the keys.                                       *)

RECURSIVE InsertAt(_, _, _)
\* The position of an element of key k appended to the sorted keys ks: it
\* moves left while its key is strictly smaller than that of its left neighbour.
InsertAt(ks, k, j) ==
    IF j > 1 /\ k < ks[j - 1] THEN InsertAt(ks, k, j - 1) ELSE j

InsertInto(s, x, j) == SubSeq(s, 1, j - 1) \o <<x>> \o SubSeq(s, j, Len(s))

RECURSIVE SortPairs(_, _)
\* pairs: a sequence of <<key, element>>; done: the sorted prefix.
SortPairs(done, pairs) ==
    IF pairs = <<>> THEN done
    ELSE LET x == Head(pairs)
             ks == [i \in DOMAIN done |-> done[i][1]]
         IN  SortPairs(InsertInto(done, x, InsertAt(ks, x[1], Len(done) + 1)), Tail(pairs))

SortSlice(s, keys) ==
    LET sorted == SortPairs(<<>>, [i \in DOMAIN s |-> <<keys[i], s[i]>>])
    IN  [i \in DOMAIN s |-> sorted[i][2]]

---------------------------------------------------------------------------
(* calculateWorkersFitness                                                 *)

\* Lines 548-553.
ValueDelay(w) ==
    IF w.availableAt = scheduleStartTime THEN maxValueDelay * FP
    ELSE (FP * SecondsPerHour) \div (w.availableAt - scheduleStartTime)

\* Lines 559-566.
ValueDriving(taskID, w) ==
    LET driving == CalcDrivingTime(w.latitude, projectsDB[tasksDB[taskID].project].latitude)
    IN  IF driving = 0 THEN maxValueDriving * FP ELSE (1000 * FP) \div driving

\* Lines 570-573.
ValueDemand(w) ==
    LET valid == calculateWorkersDemand(w.workerID)
    IN  IF valid = 0 THEN 0 ELSE (FP * Cardinality(TaskIDs)) \div valid

\* Line 598: the weighted sum.
WeightedSum(valueDelay, valueProjectFamiliarity, valueDriving, valueDemand) ==
    (valueDelay * weightDelay + valueProjectFamiliarity * weightProjectFamiliarity
        + valueDriving * weightDistance + valueDemand * weightDemand) \div 10

\* The body of the loop for one worker.  Line 594 stores math.MaxFloat32 for
\* a pinned worker and line 598 then stores the weighted sum for every worker.
scoreWorker(taskID, w) ==
    LET valueDelay == ValueDelay(w)
        valueProjectFamiliarity == projectFamiliarityDB[<<tasksDB[taskID].project, w.workerID>>] * FP
        valueDriving == ValueDriving(taskID, w)
        valueDemand == ValueDemand(w)
        pinned == [w EXCEPT !.valueDelay = valueDelay,
                            !.valueProjectFamiliarity = valueProjectFamiliarity,
                            !.valueDriving = valueDriving,
                            !.valueDemand = valueDemand,
                            !.fitness = IF w.workerID \in tasksDB[taskID].pinnedWorkerIDs
                                        THEN MaxFloat32 ELSE w.fitness]
    IN  [pinned EXCEPT !.fitness =
            WeightedSum(valueDelay, valueProjectFamiliarity, valueDriving, valueDemand)]

calculateWorkersFitness(task, workers) ==
    [i \in DOMAIN workers |-> scoreWorker(task.taskID, workers[i])]

---------------------------------------------------------------------------
(* assignBestWorker                                                        *)

\* Line 631: float32(math.Round(100/float64(worker.valueDriving))/100), in
\* hundredths of an hour.
DrivingHours(w) == (200 * FP + w.valueDriving) \div (2 * w.valueDriving)

\* Line 631.
NewStartTime(taskID, w) == AddHours(siteOf(taskID), w.availableAt, DrivingHours(w))

\* taskCanBeSnapped with a snap range that begins at the pinned datetime.
taskCanBeSnappedAtPin(taskID, newStartTimeWithSnap) ==
    /\ newStartTimeWithSnap >= tasksDB[taskID].pinnedDateTime
    /\ newStartTimeWithSnap
            < AddHours(siteOf(taskID), tasksDB[taskID].pinnedDateTime, pinnedDateTimeSnap)

\* Lines 633-636.
taskCanBeSnapped(taskID, newStartTimeWithSnap) ==
    /\ newStartTimeWithSnap > tasksDB[taskID].pinnedDateTime
    /\ newStartTimeWithSnap
            < AddHours(siteOf(taskID), tasksDB[taskID].pinnedDateTime, pinnedDateTimeSnap)

\* CanAssign without the test of line 624: a worker outside validWorkers
\* can be taken.
CanAssignInvalid(taskID, w) ==
    /\ tasksDB[taskID].pinnedWorkerIDs # {} => w.workerID \in tasksDB[taskID].pinnedWorkerIDs
    /\ \/ IsZero(tasksDB[taskID].pinnedDateTime)
       \/ taskCanBeSnapped(taskID,
              AddHours(siteOf(taskID), NewStartTime(taskID, w), pinnedDateTimeSnap))

\* CanAssign without the filter of lines 616-622: a worker that is not pinned
\* can be taken.
CanAssignUnpinned(taskID, w) ==
    /\ w.workerID \in tasksDB[taskID].validWorkers
    /\ \/ IsZero(tasksDB[taskID].pinnedDateTime)
       \/ taskCanBeSnapped(taskID,
              AddHours(siteOf(taskID), NewStartTime(taskID, w), pinnedDateTimeSnap))

\* Lines 618-639: the worker passes the pinned-worker filter, is a valid
\* worker of the task, and the task is not pinned or can be snapped.
CanAssign(taskID, w) ==
    /\ tasksDB[taskID].pinnedWorkerIDs # {} => w.workerID \in tasksDB[taskID].pinnedWorkerIDs
    /\ w.workerID \in tasksDB[taskID].validWorkers
    /\ \/ IsZero(tasksDB[taskID].pinnedDateTime)
       \/ taskCanBeSnapped(taskID,
              AddHours(siteOf(taskID), NewStartTime(taskID, w), pinnedDateTimeSnap))

\* AssignedStartTime without the branch of line 655: the pinned datetime
\* does not force the start.
StartTimeIgnoringPin(task, newStartTime) ==
    IF IsZero(task.startTime) THEN newStartTime
    ELSE IF IsZero(task.stopTime) /\ task.startTime < newStartTime THEN newStartTime
    ELSE task.startTime

\* Lines 641-656: the start of the task once worker w is taken.
AssignedStartTime(task, newStartTime) ==
    IF IsZero(tasksDB[task.taskID].pinnedDateTime)
    THEN IF IsZero(task.startTime) THEN newStartTime
         ELSE IF IsZero(task.stopTime) /\ task.startTime < newStartTime THEN newStartTime
         ELSE task.startTime
    ELSE tasksDB[task.taskID].pinnedDateTime

\* Lines 658-672: worker i of the sorted slice is taken for a task that
\* starts at startTime and, by this assignment, stops at newStopTime.
Assign(task, workers, i, startTime, newStopTime) ==
    LET stopTime == IF task.stopTime < newStopTime THEN newStopTime ELSE task.stopTime
    IN  <<[task EXCEPT !.startTime = startTime, !.stopTime = stopTime,
                       !.assignees = Append(task.assignees, workers[i].workerID)],
          [workers EXCEPT ![i].availableAt = stopTime,
                          ![i].latitude = projectsDB[tasksDB[task.taskID].project].latitude],
          TRUE>>

\* Lines 658-660.
AssignFrom(task, workers, i, startTime) ==
    Assign(task, workers, i, startTime,
           AddHours(siteOf(task.taskID), startTime, tasksDB[task.taskID].duration))

\* Lines 641-672.
AssignWorker(task, workers, i) ==
    AssignFrom(task, workers, i,
               AssignedStartTime(task, NewStartTime(task.taskID, workers[i])))

\* Lines 610-612: workers in descending order of fitness.
SortWorkers(workers) == SortSlice(workers, [i \in DOMAIN workers |-> -workers[i].fitness])

\* assignBestWorker: <<task, workers, workerAssigned>>.  The workers slice is
\* sorted in place whether or not a worker is found.
\* Lines 614-684: the loop stops at the first worker of the sorted slice that
\* can be assigned; able is the set of the indices of those that can.
AssignFirst(task, sorted, able) ==
    IF able = {} THEN <<task, sorted, FALSE>>
    ELSE AssignWorker(task, sorted, CHOOSE i \in able : \A j \in able : i <= j)

AssignSorted(task, sorted) ==
    AssignFirst(task, sorted, {i \in DOMAIN sorted : CanAssign(task.taskID, sorted[i])})

assignBestWorker(task, workers) == AssignSorted(task, SortWorkers(workers))

---------------------------------------------------------------------------
(* generateIndividualSchedule                                              *)

\* The state of the builder between two statements: the individual and the
\* workerAssigned flag.
Build(ind, assigned) == [individual |-> ind, workerAssigned |-> assigned]

\* Lines 1107-1117, the loop over the free assignee slots of task slot i.
\* task is the loop variable of line 1102, a copy of individual.tasks[i]
\* taken when the iteration began: every turn scores and assigns against that
\* copy and stores the result over individual.tasks[i].
\* The flag is set whatever assignBestWorker returned.
StoreAssigned(b, i, r) ==
    Build([b.individual EXCEPT !.tasks[i] = r[1], !.workers = r[2]], TRUE)

\* Lines 1111-1113: r is what assignBestWorker returned.
Store(b, i, r) ==
    Build([b.individual EXCEPT !.tasks[i] = r[1], !.workers = r[2]], r[3])

RECURSIVE fillSlots(_, _, _, _)
fillSlots(b, i, task, turns) ==
    IF turns <= 0 THEN b
    ELSE fillSlots(Store(b, i, assignBestWorker(task,
                                  calculateWorkersFitness(task, b.individual.workers))),
                   i, task, turns - 1)

\* Lines 1127-1134: task loses a prerequisite that stops at newStopTime less
\* the lag.
Release(task, newStopTime) ==
    [task EXCEPT !.numPrerequisites = task.numPrerequisites - 1,
                 !.startTime = IF task.startTime < newStopTime
                               THEN newStopTime ELSE task.startTime]

\* Lines 1124-1136 for one task of the individual.
UpdatePrerequisites(task, prerequisiteTask) ==
    IF /\ task.numPrerequisites > 0
       /\ prerequisiteTask.taskID \in DOMAIN tasksDB[task.taskID].prerequisites
    THEN Release(task, AddHours(siteOf(task.taskID), prerequisiteTask.stopTime,
                                tasksDB[task.taskID].prerequisites[prerequisiteTask.taskID]))
    ELSE task

propagate(ind, i) ==
    [ind EXCEPT !.tasks = [k \in DOMAIN ind.tasks |-> UpdatePrerequisites(ind.tasks[k], ind.tasks[i])]]

\* The dependants are updated whether or not the task has all its workers.
PropagateAlways(b, i) == Build(propagate(b.individual, i), b.workerAssigned)

\* Lines 1102-1140, one iteration of the loop over the task slots.
\* Lines 1119-1139: b is the state after the loop over the free slots.
Propagate(b, i) ==
    IF Len(b.individual.tasks[i].assignees)
           = tasksDB[b.individual.tasks[i].taskID].idealWorkerCount
    THEN Build(propagate(b.individual, i), b.workerAssigned)
    ELSE b

processTask(b, i) ==
    LET task == b.individual.tasks[i]
        ideal == tasksDB[task.taskID].idealWorkerCount
    IN  IF Len(task.assignees) < ideal /\ task.numPrerequisites = 0
        THEN Propagate(fillSlots(b, i, task, ideal - Len(task.assignees)), i)
        ELSE b

\* Lines 1147-1153.
unscheduledTasksNumber(ind) ==
    Cardinality({i \in DOMAIN ind.tasks :
        Len(ind.tasks[i].assignees) # tasksDB[ind.tasks[i].taskID].idealWorkerCount})

\* Lines 1145, 1155-1157: the latest stop after the schedule start, in
\* seconds; a task without a stop time does not count.
RECURSIVE latestStop(_, _, _)
latestStop(ind, i, fitness) ==
    IF i > Len(ind.tasks) THEN fitness
    ELSE latestStop(ind, i + 1,
            IF fitness < ind.tasks[i].stopTime - scheduleStartTime
            THEN ind.tasks[i].stopTime - scheduleStartTime ELSE fitness)

\* calculateFitness with one penalty whatever the number of unscheduled
\* tasks.
calculateFitnessOnePenalty(ind) ==
    LET unscheduled == unscheduledTasksNumber(ind)
        fitness == latestStop(ind, 1, 0)
    IN  [ind EXCEPT !.fitness =
            IF unscheduled > 0 THEN deadend * SecondsPerHour + fitness
            ELSE fitness]

\* Lines 1144-1161.  The fitness is in seconds.
calculateFitness(ind) ==
    LET unscheduled == unscheduledTasksNumber(ind)
        fitness == latestStop(ind, 1, 0)
    IN  [ind EXCEPT !.fitness =
            IF unscheduled > 0 THEN unscheduled * deadend * SecondsPerHour + fitness
            ELSE fitness]

\* Lines 1102-1141: the task slots from i to the last.
RECURSIVE processTasks(_, _)
processTasks(b, i) ==
    IF i > Len(b.individual.tasks) THEN b ELSE processTasks(processTask(b, i), i + 1)

\* Lines 1098-1142: passes until one ends with workerAssigned false.
RECURSIVE runPasses(_)
\* Line 1098: b is the state at the end of a pass.
NextPass(b) == IF b.workerAssigned THEN runPasses(b.individual) ELSE b.individual

runPasses(ind) == NextPass(processTasks(Build(ind, FALSE), 1))

\* Lines 1094-1163: what a pool goroutine sends back for an individual.
generateIndividualSchedule(ind) == calculateFitness(runPasses(resetIndividual(ind)))

---------------------------------------------------------------------------
(* math/rand.  main seeds the generator with the clock; the model draws the *)
(* seed from a small set and follows a linear congruential generator, whose *)
(* state is the next number.  Every operator that draws numbers takes the   *)
(* state r and returns <<result, state after the draws>>.                   *)

Next(r) == (r * 75 + 74) % 65537

\* rand.Intn(n) on state r (the state after it is Next(r)).
Intn(r, n) == r % n

\* rand.Float32() on state r, in tenths.
Float32(r) == r % 10

\* rand.Float32() < rate on state r, the rate in tenths.
Float32Below(r, rate) == (r % 10) < rate

\* rand.Perm(n): for i := 0; i < n; i++ { j := Intn(i+1); m[i] = m[j]; m[j] = i }
\* from step i on.  Element k of the slice is m[k + 1].
RECURSIVE PermFrom(_, _, _)
PermFrom(m, r, i) ==
    IF i >= Len(m) THEN <<m, r>>
    ELSE PermFrom([m EXCEPT ![i + 1] = m[Intn(r, i + 1) + 1], ![Intn(r, i + 1) + 1] = i],
                  Next(r), i + 1)

Perm(r, n) == PermFrom([k \in 1..n |-> 0], r, 0)

\* rand.Shuffle: for i := n - 1; i > 0; i-- { j := Intn(i+1); swap(i, j) } from
\* step i on.
RECURSIVE ShuffleFrom(_, _, _)
ShuffleFrom(m, r, i) ==
    IF i <= 0 THEN <<m, r>>
    ELSE ShuffleFrom([m EXCEPT ![i + 1] = m[Intn(r, i + 1) + 1], ![Intn(r, i + 1) + 1] = m[i + 1]],
                     Next(r), i - 1)

---------------------------------------------------------------------------
(* The parameters of the genetic algorithm (rates in tenths).              *)

populationSize == 5
crossoverRate == 9
mutationRate == 9
elitismRate == 2
threadsNum == 256

\* Lines 37-41: the settings main starts with.
SourceSettings ==
    /\ tourneySampleSize = 3
    /\ crossoverParentsNumber = 2
    /\ maxCrossoverLength = 3
    /\ maxMutatedGenes = 3
    /\ mutationTypePreference = 5

\* int(elitismRate * float32(len(population)))
elitesNum == (elitismRate * populationSize) \div 10

---------------------------------------------------------------------------
(* tourneySelect                                                           *)

\* Lines 861-872 from sample j on: the best of sampleOrder[:tourneySampleSize].
\* sampleOrder is the array under the slice, so a slice shorter than
\* tourneySampleSize still yields the elements left in the array.
RECURSIVE Tourney(_, _, _, _)
Tourney(pop, sampleOrder, j, best) ==
    IF j >= tourneySampleSize THEN best
    ELSE Tourney(pop, sampleOrder, j + 1,
            IF pop[sampleOrder[j + 1] + 1].fitness < best.bestIndividualFitness
            THEN [bestIndividualNumber |-> sampleOrder[j + 1],
                  bestIndividualFitness |-> pop[sampleOrder[j + 1] + 1].fitness,
                  sampleOrderNumber |-> j]
            ELSE best)

\* Lines 857-859.
NoBest ==
    [bestIndividualNumber |-> 0, bestIndividualFitness |-> MaxFloat32, sampleOrderNumber |-> 0]

\* Lines 874-883: st holds the array of sampleOrder, its length, the state of
\* the generator and bestIndividuals; best is the winner of the tournament.
TakeBest(pop, st, best) ==
    [st EXCEPT !.bestIndividuals = Append(st.bestIndividuals,
                                          pop[best.bestIndividualNumber + 1]),
               !.sampleOrder[best.sampleOrderNumber + 1] = st.sampleOrder[st.len],
               !.len = st.len - 1]

Reshuffle(st, shuffled) == [st EXCEPT !.sampleOrder = shuffled[1], !.rand = shuffled[2]]

ShuffleRest(st) == Reshuffle(st, ShuffleFrom(st.sampleOrder, st.rand, st.len - 1))

\* Lines 853-885, one turn of the loop.
TourneyRound(pop, st) ==
    ShuffleRest(TakeBest(pop, st, Tourney(pop, st.sampleOrder, 0, NoBest)))

RECURSIVE TourneyRounds(_, _, _)
TourneyRounds(pop, st, number) ==
    IF number <= 0 THEN <<st.bestIndividuals, st.rand>>
    ELSE TourneyRounds(pop, TourneyRound(pop, st), number - 1)

TourneyFrom(pop, number, sampleOrder) ==
    TourneyRounds(pop,
                  [sampleOrder |-> sampleOrder[1], len |-> Len(pop),
                   rand |-> sampleOrder[2], bestIndividuals |-> <<>>],
                  number)

tourneySelect(pop, number, r) ==
    TourneyFrom(pop, number, Perm(r, Len(pop)))

---------------------------------------------------------------------------
(* Mutations and crossover.  They write task IDs only: the other fields of *)
(* a slot stay those of the copied parent.                                 *)

TaskIDsOf(ind) == [i \in DOMAIN ind.tasks |-> ind.tasks[i].taskID]

\* The individual with the task IDs ids in its slots.
WithTaskIDs(ind, ids) ==
    [ind EXCEPT !.tasks = [i \in DOMAIN ind.tasks |-> [ind.tasks[i] EXCEPT !.taskID = ids[i]]]]

\* A displacement that writes the ID of oldPosition at newPosition and moves
\* nothing else: the ID that was at newPosition is lost.
DisplacedOverwriting(ids, oldPosition, newPosition) ==
    [ids EXCEPT ![newPosition + 1] = ids[oldPosition + 1]]

\* Lines 897-904: the ID at oldPosition moves to newPosition, those between
\* move one slot back.
Displaced(ids, oldPosition, newPosition) ==
    [i \in DOMAIN ids |->
        IF i - 1 >= oldPosition /\ i - 1 < newPosition THEN ids[i + 1]
        ELSE IF i - 1 = newPosition THEN ids[oldPosition + 1]
        ELSE ids[i]]

\* Lines 892-905, the loop with genes turns left.
RECURSIVE Displace(_, _, _)
Displace(ids, r, genes) ==
    IF genes <= 0 THEN <<ids, r>>
    ELSE Displace(Displaced(ids, Intn(r, Len(ids) - 1),
                            Intn(Next(r), Len(ids) - Intn(r, Len(ids) - 1) - 1)
                                + Intn(r, Len(ids) - 1) + 1),
                  Next(Next(r)), genes - 1)

Mutated(ind, mutation) == <<WithTaskIDs(ind, mutation[1]), mutation[2]>>

displacementMutation(ind, r) ==
    Mutated(ind, Displace(TaskIDsOf(ind), Next(r), Intn(r, maxMutatedGenes) + 1))

\* Lines 913-916 from turn i on.
RECURSIVE Swap(_, _, _, _)
Swap(ids, sampleOrder, i, genes) ==
    IF i >= genes THEN ids
    ELSE Swap([ids EXCEPT ![sampleOrder[i + 1] + 1] = ids[sampleOrder[Len(ids) - i] + 1],
                          ![sampleOrder[Len(ids) - i] + 1] = ids[sampleOrder[i + 1] + 1]],
              sampleOrder, i + 1, genes)

SwapBy(ids, sampleOrder, genes) == <<Swap(ids, sampleOrder[1], 0, genes), sampleOrder[2]>>

swapMutation(ind, r) ==
    Mutated(ind, SwapBy(TaskIDsOf(ind), Perm(Next(r), Len(ind.tasks)),
                               Intn(r, maxMutatedGenes - 1) + 1))

\* Lines 929-937 for one individual.
mutateIndividual(ind, r) ==
    IF Float32Below(r, mutationRate)
    THEN IF Float32Below(Next(r), mutationTypePreference)
         THEN displacementMutation(ind, Next(Next(r)))
         ELSE swapMutation(ind, Next(Next(r)))
    ELSE <<ind, Next(r)>>

MutatedNext(done, individuals, mutated) ==
    <<Append(done, mutated[1]), Tail(individuals), mutated[2]>>

RECURSIVE MutateFrom(_)
\* x is <<mutatedIndividuals so far, individuals left, state of the generator>>.
MutateFrom(x) ==
    IF x[2] = <<>> THEN <<x[1], x[3]>>
    ELSE MutateFrom(MutatedNext(x[1], x[2], mutateIndividual(copyIndividual(Head(x[2])), x[3])))

mutateIndividuals(individuals, r) == MutateFrom(<<(<<>>), individuals, r>>)

\* Lines 970-990: the slots of the child outside the crossover are filled, in
\* order, with the IDs of the other parent that were not copied.
RECURSIVE FillChild(_, _, _, _, _, _, _)
FillChild(child, other, copiedGenes, crossoverStart, crossoverEnd, childIndex, parentIndex) ==
    IF childIndex >= Len(child) \/ parentIndex >= Len(child) THEN child
    ELSE IF childIndex >= crossoverStart /\ childIndex < crossoverEnd
    THEN FillChild(child, other, copiedGenes, crossoverStart, crossoverEnd,
                   childIndex + 1, parentIndex)
    ELSE IF other[parentIndex + 1] \notin copiedGenes
    THEN FillChild([child EXCEPT ![childIndex + 1] = other[parentIndex + 1]], other,
                   copiedGenes, crossoverStart, crossoverEnd, childIndex + 1, parentIndex + 1)
    ELSE FillChild(child, other, copiedGenes, crossoverStart, crossoverEnd,
                   childIndex, parentIndex + 1)

\* Lines 958-991 for parent i (from 0): the child is a copy of the parent, it
\* keeps the parent's IDs in [crossoverStart, crossoverEnd) and takes the
\* others from parentIndividuals[len(parentIndividuals)-i-1].
CrossoverChild(parentIndividuals, i, crossoverStart, crossoverEnd) ==
    WithTaskIDs(copyIndividual(parentIndividuals[i + 1]),
        FillChild(TaskIDsOf(parentIndividuals[i + 1]),
                  TaskIDsOf(parentIndividuals[Len(parentIndividuals) - i]),
                  {parentIndividuals[i + 1].tasks[j + 1].taskID :
                      j \in crossoverStart..(crossoverEnd - 1)},
                  crossoverStart, crossoverEnd, 0, 0))

\* Lines 948-956 and 958.
Crossover(parentIndividuals, crossoverStart, crossoverEnd) ==
    [i \in DOMAIN parentIndividuals |->
        CrossoverChild(parentIndividuals, i - 1, crossoverStart,
                       Min(crossoverEnd, Len(parentIndividuals[1].tasks)))]

crossoverIndividualsOX1(parentIndividuals, r) ==
    IF Float32Below(r, crossoverRate)
    THEN <<Crossover(parentIndividuals,
                     Intn(Next(r), Len(parentIndividuals[1].tasks)),
                     Intn(Next(r), Len(parentIndividuals[1].tasks))
                        + Intn(Next(Next(r)), maxCrossoverLength)),
           Next(Next(Next(r)))>>
    ELSE <<[i \in DOMAIN parentIndividuals |-> copyIndividual(parentIndividuals[i])], Next(r)>>

---------------------------------------------------------------------------
(* generatePopulation, transmogrifyPopulation, generatePopulationSchedules *)

\* Lines 479-490: the i-th task that range visits goes to slot taskOrder[i].
SlotOrder(taskRange, taskOrder) ==
    [k \in DOMAIN taskRange |->
        taskRange[CHOOSE i \in DOMAIN taskOrder : taskOrder[i] + 1 = k]]

GeneratedNext(individuals, taskOrder) ==
    <<Append(individuals, generateIndividual(SlotOrder(mapRange.tasks, taskOrder[1]),
                                             mapRange.workers)),
      taskOrder[2]>>

\* generatePopulation: x is <<individuals so far, state of the generator>>.
RECURSIVE GenerateFrom(_)
GenerateFrom(x) ==
    IF Len(x[1]) >= populationSize THEN x
    ELSE GenerateFrom(GeneratedNext(x[1], Perm(x[2], Len(mapRange.tasks))))

generatePopulation(r) == GenerateFrom(<<(<<>>), r>>)

\* calcTasksHash hashes the task IDs joined by commas; the model keeps the
\* list of IDs that is hashed.
calcTasksHash(tasks) == [i \in DOMAIN tasks |-> tasks[i].taskID]

calcIndividualHash(ind) == calcTasksHash(ind.tasks)

\* The map from hash to the index of the last individual that has it.
calcIndividualsHash(individuals) ==
    [h \in {calcIndividualHash(individuals[i]) : i \in DOMAIN individuals} |->
        (CHOOSE i \in DOMAIN individuals :
            /\ calcIndividualHash(individuals[i]) = h
            /\ \A j \in DOMAIN individuals : calcIndividualHash(individuals[j]) = h => j <= i) - 1]

copyIndividuals(oldIndividuals) ==
    [i \in DOMAIN oldIndividuals |-> copyIndividual(oldIndividuals[i])]

\* Lines 796-800.
KeptElites(individuals) ==
    [individuals |-> copyIndividuals(SubSeq(individuals, 1, elitesNum)),
     hashes |-> calcIndividualsHash(SubSeq(individuals, 1, elitesNum))]

\* Lines 819-829 for one individual v; b holds newPopulation's individuals
\* and hashes, remainingIndividualsNumber and the state of the generator.
AddNew(b, v) ==
    IF calcIndividualHash(v) \in DOMAIN b.hashes THEN b
    ELSE [b EXCEPT !.hashes = (calcIndividualHash(v) :> Len(b.individuals)) @@ b.hashes,
                   !.individuals = Append(b.individuals, copyIndividual(v)),
                   !.remaining = b.remaining - 1]

RECURSIVE AddAllNew(_, _)
AddAllNew(b, tempIndividuals) ==
    IF tempIndividuals = <<>> THEN b
    ELSE AddAllNew(AddNew(b, Head(tempIndividuals)), Tail(tempIndividuals))

AddMutated(b, mutated) == AddAllNew([b EXCEPT !.rand = mutated[2]], mutated[1])

MutateCrossed(b, crossed) == AddMutated(b, mutateIndividuals(crossed[1], crossed[2]))

CrossSelected(b, selected) == MutateCrossed(b, crossoverIndividualsOX1(selected[1], selected[2]))

\* Lines 808-835, one turn of the loop of transmogrifyPopulation.
Breed(individuals, b) ==
    CrossSelected(b, tourneySelect(individuals, crossoverParentsNumber, b.rand))

\* sortPopulation: five individuals are sorted by insertion.
sortPopulation(individuals) ==
    SortSlice(individuals, [i \in DOMAIN individuals |-> individuals[i].fitness])

\* Lines 1047-1054: the elites are sent and received one at a time.
ElitesEvaluated(individuals) ==
    IF individuals[1].fitness = 0
    THEN [i \in DOMAIN individuals |->
            IF i <= elitesNum THEN generateIndividualSchedule(individuals[i])
            ELSE individuals[i]]
    ELSE individuals

\* Line 1060.
remainingThreads == Min(populationSize - elitesNum - 1, threadsNum)

\* Lines 1058-1077.  threadsNum exceeds populationSize, so the loop makes one
\* turn: the individuals elitesNum .. populationSize-2 (from 0) are sent, and
\* the i-th result received, that of the arrival[i]-th sent, is stored at
\* elitesNum + i - 1.
RestEvaluated(individuals, arrival) ==
    [i \in DOMAIN individuals |->
        IF i - 1 >= elitesNum /\ i - 1 < elitesNum + remainingThreads
        THEN generateIndividualSchedule(individuals[elitesNum + arrival[i - elitesNum]])
        ELSE individuals[i]]

generatePopulationSchedules(individuals, arrival) ==
    RestEvaluated(ElitesEvaluated(individuals), arrival)

\* Lines 1326-1334: the number of generations in which the sum of the three
\* best fitnesses has not changed.
Stagnation(old, individuals) ==
    IF individuals[1].fitness + individuals[2].fitness + individuals[3].fitness # old.fitness
    THEN [number |-> 0,
          fitness |-> individuals[1].fitness + individuals[2].fitness + individuals[3].fitness]
    ELSE [old EXCEPT !.number = old.number + 1]

\* Lines 1337-1341: the five draws on state r, and the state after them.
randomSettings(r) ==
    [tourneySampleSize |-> Intn(r, 91) + 10,
     crossoverParentsNumber |-> Intn(Next(r), 3) + 2,
     maxCrossoverLength |-> Intn(Next(Next(r)), 91) + 10,
     maxMutatedGenes |-> Intn(Next(Next(Next(r))), 91) + 10,
     mutationTypePreference |-> Float32(Next(Next(Next(Next(r))))),
     rand |-> Next(Next(Next(Next(Next(r)))))]

isStagnantAt50(counted) == counted.number >= 50

\* Line 1336.
isStagnant(counted) == counted.number > 50

---------------------------------------------------------------------------
(* Catalogues: the contents of the five CSV files.                         *)

\* A site working 08:00-16:00 without holidays (readProjectInfoCSV reads no
\* holidays).
Workday == Site(8 * SecondsPerHour, 16 * SecondsPerHour, {})

\* worker_project_hours.csv: hours of the listed <<project, worker>> pairs, 0
\* for the others.
Familiarity(projects, workers, hours) ==
    [pw \in projects \X workers |-> IF pw \in DOMAIN hours THEN hours[pw] ELSE 0]

Catalogue(tasks, workers, projects, hours) ==
    [tasks |-> tasks, workers |-> workers, projects |-> projects,
     familiarity |-> Familiarity(DOMAIN projects, DOMAIN workers, hours)]

NoHours == [pw \in {} |-> 0]
OneProject == ("P1" :> Project(0, Workday))
Plain(validWorkers, duration) ==
    Task("P1", validWorkers, NoPrerequisites, duration, 1, ZeroTime, {})

\* One task, two valid workers 10 km and 1 km away.
CatTwoWorkers ==
    Catalogue(("P1.1" :> Plain({"W1", "W2"}, 200)),
              ("W1" :> Worker(10000, {})) @@ ("W2" :> Worker(1000, {})),
              OneProject, NoHours)

\* A prerequisite with a lag of one hour, and an independent task.
CatLag ==
    Catalogue(("P1.1" :> Plain({"W1", "W2"}, 400))
              @@ ("P1.2" :> Task("P1", {"W1", "W2"}, ("P1.1" :> 100), 400, 1, ZeroTime, {}))
              @@ ("P1.3" :> Plain({"W2"}, 200)),
              ("W1" :> Worker(0, {})) @@ ("W2" :> Worker(2000, {})),
              OneProject, (<<"P1", "W1">> :> 10))

\* A task pinned on Friday 10:00 that has a prerequisite, and a task pinned
\* on Friday 12:00.
CatPinned ==
    Catalogue(("P1.1" :> Plain({"W1"}, 400))
              @@ ("P1.2" :> Task("P1", {"W2"}, ("P1.1" :> 0), 200, 1, At(0, Friday, 10, 0), {}))
              @@ ("P1.3" :> Task("P1", {"W1", "W2"}, NoPrerequisites, 100, 1,
                                 At(0, Friday, 12, 0), {})),
              ("W1" :> Worker(0, {})) @@ ("W2" :> Worker(0, {})),
              OneProject, NoHours)

\* A task that pins the far worker W3, and a task that pins two workers.
CatPinnedWorker ==
    Catalogue(("P1.1" :> Task("P1", {"W1", "W2", "W3"}, NoPrerequisites, 200, 1, ZeroTime, {"W3"}))
              @@ ("P1.2" :> Plain({"W1", "W2", "W3"}, 200))
              @@ ("P1.3" :> Task("P1", {"W1", "W2"}, NoPrerequisites, 100, 1, ZeroTime, {"W1", "W2"})),
              ("W1" :> Worker(0, {})) @@ ("W2" :> Worker(0, {})) @@ ("W3" :> Worker(20000, {})),
              OneProject, (<<"P1", "W1">> :> 40))

\* Worker W1 is off on Friday from 08:00 to 12:00.
CatTimeOff ==
    Catalogue(("P1.1" :> Plain({"W1"}, 200)) @@ ("P1.2" :> Plain({"W1", "W2"}, 300)),
              ("W1" :> Worker(0, {[startTime |-> At(0, Friday, 8, 0),
                                   endTime |-> At(0, Friday, 12, 0)]}))
              @@ ("W2" :> Worker(4000, {})),
              OneProject, NoHours)

\* Tasks that need two workers.
CatCrew ==
    Catalogue(("P1.1" :> Task("P1", {"W1", "W2"}, NoPrerequisites, 400, 2, ZeroTime, {}))
              @@ ("P1.2" :> Plain({"W1"}, 200))
              @@ ("P1.3" :> Task("P1", {"W2"}, ("P1.1" :> 0), 100, 2, ZeroTime, {})),
              ("W1" :> Worker(0, {})) @@ ("W2" :> Worker(3000, {})),
              OneProject, NoHours)

\* A task nobody can do, and a task that waits for it.
CatDeadEnd ==
    Catalogue(("P1.1" :> Plain({}, 200))
              @@ ("P1.2" :> Task("P1", {"W1"}, ("P1.1" :> 0), 200, 1, ZeroTime, {}))
              @@ ("P1.3" :> Plain({"W1"}, 200)),
              ("W1" :> Worker(0, {})),
              OneProject, NoHours)

\* Two sites 8 km apart and one worker.
CatTwoSites ==
    Catalogue(("P1.1" :> Plain({"W1"}, 200))
              @@ ("P2.1" :> Task("P2", {"W1"}, NoPrerequisites, 700, 1, ZeroTime, {}))
              @@ ("P1.2" :> Plain({"W1"}, 100)),
              ("W1" :> Worker(0, {})),
              ("P1" :> Project(0, Workday)) @@ ("P2" :> Project(8000, Workday)),
              NoHours)

\* A task of 3000 working hours pinned on Friday 10:00, and a short task.
CatLong ==
    Catalogue(("P1.1" :> Task("P1", {"W1"}, NoPrerequisites, 300000, 1, At(0, Friday, 10, 0), {}))
              @@ ("P1.2" :> Plain({"W1"}, 200)),
              ("W1" :> Worker(0, {})),
              OneProject, NoHours)

\* A task that waits for two tasks, one of them with a crew of two.
CatJoin ==
    Catalogue(("P1.1" :> Task("P1", {"W1", "W2"}, NoPrerequisites, 200, 2, ZeroTime, {}))
              @@ ("P1.2" :> Plain({"W2"}, 100))
              @@ ("P1.3" :> Task("P1", {"W1"}, ("P1.1" :> 0) @@ ("P1.2" :> 100), 200, 1,
                                 ZeroTime, {})),
              ("W1" :> Worker(0, {})) @@ ("W2" :> Worker(2000, {})),
              OneProject, NoHours)

\* Two tasks that wait for each other, and an independent task.
CatCycle ==
    Catalogue(("P1.1" :> Task("P1", {"W1"}, ("P1.2" :> 0), 200, 1, ZeroTime, {}))
              @@ ("P1.2" :> Task("P1", {"W1"}, ("P1.1" :> 0), 200, 1, ZeroTime, {}))
              @@ ("P1.3" :> Plain({"W1"}, 200)),
              ("W1" :> Worker(0, {})),
              OneProject, NoHours)

\* AddHours(newStart, pinnedDateTimeSnap) of a worker who is at the site and
\* free at the schedule start.
SnapOfScheduleStart ==
    AddHours(Workday,
             AddHours(Workday, scheduleStartTime,
                      DrivingHours([valueDriving |-> maxValueDriving * FP])),
             pinnedDateTimeSnap)

\* A task pinned at the snapped start of W1, and a task pinned ten minutes
\* before the snapped start of W2.
CatPinnedAtSnap ==
    Catalogue(("P1.1" :> Task("P1", {"W1"}, NoPrerequisites, 200, 1, SnapOfScheduleStart, {}))
              @@ ("P1.2" :> Task("P1", {"W2"}, NoPrerequisites, 200, 1,
                                 SnapOfScheduleStart - timeRoundingSeconds, {}))
              @@ ("P1.3" :> Plain({"W1", "W2"}, 100)),
              ("W1" :> Worker(0, {})) @@ ("W2" :> Worker(0, {})),
              OneProject, NoHours)

\* The largest idealWorkerCount of the generated catalogues.
MaxIdealWorkerCount == 2

\* Two tasks and two workers, with every combination of valid workers, crew
\* size, pinned datetime and pinned worker, the second task free, or waiting
\* for the first with or without a lag.
GeneratedTasks(project, prerequisites, duration) ==
    {Task(project, validWorkers, prerequisites, duration, idealWorkerCount, pinnedDateTime, pinnedWorkerIDs) :
        validWorkers \in {{"W1"}, {"W1", "W2"}},
        idealWorkerCount \in 1..MaxIdealWorkerCount,
        pinnedDateTime \in {ZeroTime, At(0, Friday, 10, 0)},
        pinnedWorkerIDs \in {{}, {"W2"}}}

GeneratedCatalogues ==
    {Catalogue(("P1.1" :> first) @@ ("P1.2" :> second),
               ("W1" :> Worker(0, {})) @@ ("W2" :> Worker(4000, {})),
               OneProject, NoHours) :
        first \in GeneratedTasks("P1", NoPrerequisites, 300),
        second \in UNION {GeneratedTasks("P1", prerequisites, 200) :
                            prerequisites \in {NoPrerequisites, ("P1.1" :> 0), ("P1.1" :> 100)}}}

Catalogues ==
    {CatTwoWorkers, CatLag, CatPinned, CatPinnedWorker, CatTimeOff, CatCrew,
     CatDeadEnd, CatTwoSites, CatLong, CatJoin, CatCycle, CatPinnedAtSnap}
        \cup GeneratedCatalogues

---------------------------------------------------------------------------
(* The schedule builder, statement by statement: one goroutine of the pool *)
(* takes an individual, resets it, runs the passes and computes its        *)
(* fitness.                                                                *)

\* The driver has not started.
NoPopulation == [individuals |-> <<>>, hashes |-> <<>>]

\* Site.AddHours has not been called.
CalendarIdle ==
    calendar = [site |-> Workday, startTime |-> ZeroTime, hours |-> 0, endTime |-> ZeroTime]

\* generatePopulationSchedules has not been called.
PoolIdle ==
    /\ schedules = [population |-> <<>>, populationSize |-> 0, threadsNum |-> 0,
                    elitismRate |-> 0, elitesNum |-> 0, j |-> 0, i |-> 0,
                    remainingThreads |-> 0]
    /\ routines = <<>>
    /\ chanIndividualIn = [closed |-> FALSE]
    /\ chanIndividualOut = [closed |-> FALSE]
    /\ dispatch = [population |-> <<>>, sent |-> <<>>, evaluated |-> <<>>, received |-> <<>>]

\* tourneySelect has not been called.
TourneyIdle ==
    tourney = [population |-> <<>>, number |-> 0, i |-> 0, sampleOrder |-> <<>>, len |-> 0,
               rand |-> 0, bestIndividuals |-> <<>>, selected |-> <<>>]

\* crossoverIndividualsOX1 has not been called.
CrossoverIdle ==
    crossover = [parentIndividuals |-> <<>>, crossed |-> FALSE, crossoverStart |-> 0,
                 crossoverEnd |-> 0, childIndividuals |-> <<>>]

DriverIdle ==
    /\ mapRange = [tasks |-> <<>>, workers |-> <<>>]
    /\ rand = 0
    /\ population = NoPopulation
    /\ newPopulation = NoPopulation
    /\ remainingIndividualsNumber = 0
    /\ generation = 0
    /\ stagnant = [number |-> 0, fitness |-> 0]
    /\ bestFitness = <<>>
    /\ breedTurns = 0
    /\ SourceSettings
    /\ TourneyIdle
    /\ CrossoverIdle

BuildInit ==
    /\ db \in Catalogues
    /\ individual \in {generateIndividual(taskOrder, workerOrder) :
                         taskOrder \in Perms(TaskIDs), workerOrder \in Perms(WorkerIDs)}
    /\ slot = 1
    /\ workerAssigned = TRUE
    /\ pc = "received"
    /\ DriverIdle
    /\ CalendarIdle
    /\ PoolIdle

\* Line 1094.
Reset ==
    /\ pc = "received"
    /\ individual' = resetIndividual(individual)
    /\ pc' = "pass"
    /\ UNCHANGED <<calVars, poolVars, db, slot, workerAssigned, driverVars>>

\* Lines 1098-1100: a pass begins.
BeginPass ==
    /\ pc = "pass"
    /\ workerAssigned
    /\ workerAssigned' = FALSE
    /\ slot' = 1
    /\ pc' = "tasks"
    /\ UNCHANGED <<calVars, poolVars, db, individual, driverVars>>

\* Lines 1102-1140 for one task slot.
ProcessTask ==
    /\ pc = "tasks"
    /\ slot <= Len(individual.tasks)
    /\ \E b \in {processTask(Build(individual, workerAssigned), slot)} :
           /\ individual' = b.individual
           /\ workerAssigned' = b.workerAssigned
    /\ slot' = slot + 1
    /\ UNCHANGED <<calVars, poolVars, db, pc, driverVars>>

\* Line 1098: the pass is over, the loop condition is tested.
EndPass ==
    /\ pc = "tasks"
    /\ slot > Len(individual.tasks)
    /\ pc' = "pass"
    /\ UNCHANGED <<calVars, poolVars, db, individual, slot, workerAssigned, driverVars>>

\* Lines 1144-1163.
Fitness ==
    /\ pc = "pass"
    /\ ~workerAssigned
    /\ individual' = calculateFitness(individual)
    /\ pc' = "sent"
    /\ UNCHANGED <<calVars, poolVars, db, slot, workerAssigned, driverVars>>

BuildNext == Reset \/ BeginPass \/ ProcessTask \/ EndPass \/ Fitness

SpecBuild == BuildInit /\ [][BuildNext]_vars

---------------------------------------------------------------------------
(* The driver: main from generatePopulation to the end of the loop over    *)
(* the generations.                                                        *)

\* The number of generations (generationsLimit of the driver).
generationsLimit == 2

\* The seeds of the generator.
MaxSeed == 7

DriverCatalogues == {CatLag, CatDeadEnd, CatTwoSites, CatTimeOff}

BuilderIdle ==
    /\ individual = [tasks |-> <<>>, workers |-> <<>>, fitness |-> 0]
    /\ slot = 1
    /\ workerAssigned = TRUE

\* Lines 1282-1307.  The order in which range visits a map is not specified;
\* one order of tasksDB and one of workersDB are drawn for the run.
DriverInit ==
    /\ db \in DriverCatalogues
    /\ mapRange \in [tasks : Perms(TaskIDs), workers : Perms(WorkerIDs)]
    /\ \E seed \in 0..MaxSeed :
        \E generated \in {generatePopulation(seed)} :
            /\ population = [individuals |-> generated[1], hashes |-> <<>>]
            /\ rand = generated[2]
    /\ newPopulation = NoPopulation
    /\ remainingIndividualsNumber = 0
    /\ generation = 0
    /\ stagnant = [number |-> 0, fitness |-> 0]
    /\ bestFitness = <<>>
    /\ breedTurns = 0
    /\ SourceSettings
    /\ TourneyIdle
    /\ CrossoverIdle
    /\ pc = "transmogrify"
    /\ BuilderIdle
    /\ CalendarIdle
    /\ PoolIdle

\* Lines 791-804: transmogrifyPopulation keeps the elites.
KeepElites ==
    /\ pc = "transmogrify"
    /\ generation < generationsLimit
    /\ newPopulation' = KeptElites(population.individuals)
    /\ remainingIndividualsNumber' = Len(population.individuals) - elitesNum
    /\ breedTurns' = 0
    /\ pc' = "breed"
    /\ UNCHANGED <<calVars, poolVars, tourney, crossover, settings, db, buildVars, mapRange, rand, population, generation, stagnant, bestFitness>>

\* The turns of the loop that are followed; the code has no such limit.
MaxTurns == 12

\* Lines 806-835: one turn of the loop.
BreedIndividuals ==
    /\ pc = "breed"
    /\ breedTurns < MaxTurns
    /\ breedTurns' = breedTurns + 1
    /\ \E b \in {Breed(population.individuals,
                       [individuals |-> newPopulation.individuals,
                        hashes |-> newPopulation.hashes,
                        remaining |-> remainingIndividualsNumber, rand |-> rand])} :
        /\ newPopulation' = [individuals |-> b.individuals, hashes |-> b.hashes]
        /\ remainingIndividualsNumber' = b.remaining
        /\ rand' = b.rand
        /\ pc' = IF b.remaining > 0 THEN "breed" ELSE "cut"
    /\ UNCHANGED <<calVars, poolVars, tourney, crossover, settings, db, buildVars, mapRange, population, generation, stagnant, bestFitness>>

\* Lines 837-841 and 1315: the new population, cut to the size of the old
\* one, becomes main's population.
CutPopulation ==
    /\ pc = "cut"
    /\ population' = [newPopulation EXCEPT
                        !.individuals = SubSeq(@, 1, Len(population.individuals))]
    /\ newPopulation' = NoPopulation
    /\ pc' = "schedules"
    /\ UNCHANGED <<calVars, poolVars, tourney, crossover, settings, db, buildVars, mapRange, rand, remainingIndividualsNumber, generation,
                   stagnant, bestFitness, breedTurns>>

\* Line 1318: generatePopulationSchedules.  The results of the goroutines
\* arrive in any order.
GeneratePopulationSchedules ==
    /\ pc = "schedules"
    /\ \E arrival \in Perms(1..remainingThreads) :
        population' = [population EXCEPT
                          !.individuals = generatePopulationSchedules(@, arrival)]
    /\ pc' = "sort"
    /\ UNCHANGED <<calVars, poolVars, tourney, crossover, settings, db, buildVars, mapRange, rand, newPopulation, remainingIndividualsNumber,
                   generation, stagnant, bestFitness, breedTurns>>

\* Lines 1336-1343: the settings are drawn again and the counter starts
\* anew when the counter counted has passed 50.
BreakStagnation(counted) ==
    IF isStagnant(counted)
    THEN \E drawn \in {randomSettings(rand)} :
            /\ tourneySampleSize' = drawn.tourneySampleSize
            /\ crossoverParentsNumber' = drawn.crossoverParentsNumber
            /\ maxCrossoverLength' = drawn.maxCrossoverLength
            /\ maxMutatedGenes' = drawn.maxMutatedGenes
            /\ mutationTypePreference' = drawn.mutationTypePreference
            /\ rand' = drawn.rand
            /\ stagnant' = [counted EXCEPT !.number = 0]
    ELSE /\ stagnant' = counted
         /\ UNCHANGED <<settings, rand>>

\* Lines 1319-1359: the population is sorted, the best fitness is logged, the
\* stagnation counter is updated and a stagnation is broken.
SortPopulation ==
    /\ pc = "sort"
    /\ \E sorted \in {sortPopulation(population.individuals)} :
        /\ population' = [population EXCEPT !.individuals = sorted]
        /\ bestFitness' = Append(bestFitness, sorted[1].fitness)
        /\ BreakStagnation(Stagnation(stagnant, sorted))
    /\ generation' = generation + 1
    /\ pc' = IF generation + 1 < generationsLimit THEN "transmogrify" ELSE "done"
    /\ UNCHANGED <<calVars, poolVars, tourney, crossover, db, buildVars, mapRange, newPopulation, remainingIndividualsNumber,
                   breedTurns>>

DriverNext ==
    KeepElites \/ BreedIndividuals \/ CutPopulation \/ GeneratePopulationSchedules
        \/ SortPopulation

SpecDriver == DriverInit /\ [][DriverNext]_vars

---------------------------------------------------------------------------
(* The calendar alone: one call of Site.AddHours.                          *)

\* The largest number of half hours added.
MaxHalfHours == 40

\* Sites working 08:00-16:00: without holidays, and with a holiday on the
\* Friday of the first week, on the Monday of the second, on both.  The keys
\* of Holidays are dates, as line 48 looks them up.
CalendarSites ==
    {Site(8 * SecondsPerHour, 16 * SecondsPerHour, holidays) :
        holidays \in {{}, {At(0, Friday, 0, 0)}, {At(1, Monday, 0, 0)},
                      {At(0, Friday, 0, 0), At(1, Monday, 0, 0)}}}

\* Start instants on every day of the first week: before, inside, at the
\* end of and after the working window.
CalendarStarts ==
    {At(0, weekday, clock[1], clock[2]) :
        weekday \in Monday..Sunday,
        clock \in {<<7, 0>>, <<8, 0>>, <<10, 7>>, <<15, 0>>, <<15, 30>>, <<16, 0>>, <<17, 0>>}}

\* Hours in hundredths: none, 0.01 h, 8.01 h and the half hours up to
\* MaxHalfHours.
CalendarHours == {0, 1, 801} \cup {50 * k : k \in 1..MaxHalfHours}

CalendarInit ==
    /\ calendar \in [site : CalendarSites, startTime : CalendarStarts,
                     hours : CalendarHours, endTime : {ZeroTime}]
    /\ pc = "AddHours"
    /\ db = CatTwoWorkers
    /\ BuilderIdle
    /\ DriverIdle
    /\ PoolIdle

\* Lines 25-101.
ReturnAddHours ==
    /\ pc = "AddHours"
    /\ calendar' = [calendar EXCEPT
                      !.endTime = AddHours(calendar.site, calendar.startTime, calendar.hours)]
    /\ pc' = "returned"
    /\ UNCHANGED <<db, buildVars, driverVars, poolVars>>

CalendarNext == ReturnAddHours

SpecCalendar == CalendarInit /\ [][CalendarNext]_vars

---------------------------------------------------------------------------
(* The pool alone: one call of generatePopulationSchedules with its        *)
(* goroutines.  The channels are unbuffered: a send and the receive that   *)
(* takes it are one step.  populationSize, elitismRate and threadsNum are  *)
(* settings of the call; the slice has populationSize individuals.         *)

\* The largest population and the largest number of goroutines.
MaxPopulation == 4
MaxThreads == 3

\* elitismRate in tenths: none, the default, half and all of the population.
PoolElitismRates == {0, 2, 5, 10}

\* Two orders of the tasks of CatLag.
PoolTaskOrders == {<<"P1.1", "P1.2", "P1.3">>, <<"P1.3", "P1.2", "P1.1">>}

\* The slices of size individuals that have not been evaluated.
PoolPopulations(size) ==
    {[k \in 1..size |-> generateIndividual(orders[k], <<"W1", "W2">>)] :
        orders \in [1..size -> PoolTaskOrders]}

\* individual{}.
NoIndividual == [tasks |-> <<>>, workers |-> <<>>, fitness |-> 0]

\* A goroutine at its receive, line 1088.
Waiting == [at |-> "receive", individual |-> NoIndividual, slot |-> 0]

\* The individuals left, whatever the number of goroutines.
RemainingThreadsUncapped(size, j, threads) == size - j - 1

\* Line 1060-1063.
RemainingThreads(size, j, threads) == Min(size - j - 1, threads)

\* main is about to call generatePopulationSchedules, line 1319, with a slice
\* and the settings of the run.
PoolInit ==
    /\ db = CatLag
    /\ \E slice \in UNION {PoolPopulations(size) : size \in 1..MaxPopulation} :
         \E threads \in 1..MaxThreads, rate \in PoolElitismRates :
            schedules = [population |-> slice, populationSize |-> Len(slice),
                         threadsNum |-> threads, elitismRate |-> rate,
                         elitesNum |-> 0, j |-> 0, i |-> 0, remainingThreads |-> 0]
    /\ routines = <<>>
    /\ chanIndividualIn = [closed |-> FALSE]
    /\ chanIndividualOut = [closed |-> FALSE]
    /\ dispatch = [population |-> <<>>, sent |-> <<>>, evaluated |-> <<>>, received |-> <<>>]
    /\ pc = "call"
    /\ BuilderIdle
    /\ DriverIdle
    /\ CalendarIdle

\* Lines 1038-1045 for the slice individuals: the number of elites is
\* computed, the channels are made and the goroutines started.
Called(individuals) ==
    /\ schedules' = [schedules EXCEPT
                        !.population = individuals,
                        !.elitesNum = (schedules.elitismRate * Len(individuals)) \div 10]
    /\ routines' = [g \in 1..schedules.threadsNum |-> Waiting]
    /\ dispatch' = [population |-> individuals,
                    sent |-> [k \in DOMAIN individuals |-> 0],
                    evaluated |-> [k \in DOMAIN individuals |-> 0],
                    received |-> [k \in DOMAIN individuals |-> 0]]
    /\ pc' = "elites"
    /\ UNCHANGED <<db, buildVars, driverVars, calVars, chanIndividualIn, chanIndividualOut>>

\* The call with individuals that have never been evaluated.
Call ==
    /\ pc = "call"
    /\ Called(schedules.population)

\* The call with individuals that carry the schedules and the fitness of an
\* earlier generation.
CallEvaluated ==
    /\ pc = "call"
    /\ Called([k \in DOMAIN schedules.population |->
                  generateIndividualSchedule(schedules.population[k])])

\* The goroutine g takes population[k] (from 1) from chanIndividualIn.
Taken(g, k) ==
    /\ routines[g].at = "receive"
    /\ ~chanIndividualIn.closed
    /\ routines' = [routines EXCEPT ![g] = [at |-> "evaluate",
                                            individual |-> schedules.population[k],
                                            slot |-> k]]
    /\ dispatch' = [dispatch EXCEPT !.sent[k] = @ + 1]

\* The caller takes the result of the goroutine g from chanIndividualOut and
\* stores it at population[k] (from 1); g returns to its receive.
Stored(g, k) ==
    /\ routines[g].at = "send"
    /\ ~chanIndividualOut.closed
    /\ routines' = [routines EXCEPT ![g] = Waiting]
    /\ dispatch' = [dispatch EXCEPT !.received[routines[g].slot] = @ + 1]

\* Lines 1048 and 1057-1058: the elites are evaluated if the first individual
\* has no fitness and there are elites; otherwise the rest follows.
CheckElites ==
    /\ pc = "elites"
    /\ IF schedules.population[1].fitness = 0 /\ schedules.elitesNum > 0
       THEN /\ pc' = "eliteSend"
            /\ schedules' = [schedules EXCEPT !.i = 0]
       ELSE /\ pc' = "batch"
            /\ schedules' = [schedules EXCEPT !.j = schedules.elitesNum]
    /\ UNCHANGED <<db, buildVars, driverVars, calVars, routines, chanIndividualIn,
                   chanIndividualOut, dispatch>>

\* Line 1051.
SendElite(g) ==
    /\ pc = "eliteSend"
    /\ Taken(g, schedules.i + 1)
    /\ pc' = "eliteReceive"
    /\ UNCHANGED <<db, buildVars, driverVars, calVars, schedules, chanIndividualIn,
                   chanIndividualOut>>

\* Lines 1052 and 1057: the elite is stored; after the last one the rest
\* follows.
ReceiveElite(g) ==
    /\ pc = "eliteReceive"
    /\ Stored(g, schedules.i + 1)
    /\ IF schedules.i + 1 < schedules.elitesNum
       THEN /\ pc' = "eliteSend"
            /\ schedules' = [schedules EXCEPT
                                !.population[schedules.i + 1] = routines[g].individual,
                                !.i = @ + 1]
       ELSE /\ pc' = "batch"
            /\ schedules' = [schedules EXCEPT
                                !.population[schedules.i + 1] = routines[g].individual,
                                !.i = @ + 1,
                                !.j = schedules.elitesNum]
    /\ UNCHANGED <<db, buildVars, driverVars, calVars, chanIndividualIn, chanIndividualOut>>

\* Lines 1059-1063: another turn of the loop begins, or the loop ends.
BeginBatch ==
    /\ pc = "batch"
    /\ IF schedules.j < schedules.populationSize - 1
       THEN /\ pc' = "send"
            /\ schedules' = [schedules EXCEPT
                                !.remainingThreads =
                                    RemainingThreads(schedules.populationSize, schedules.j,
                                                     schedules.threadsNum),
                                !.i = 0]
       ELSE /\ pc' = "closeIn"
            /\ UNCHANGED schedules
    /\ UNCHANGED <<db, buildVars, driverVars, calVars, routines, chanIndividualIn,
                   chanIndividualOut, dispatch>>

\* Lines 1064-1070: population[j+i] is sent; after the last send of the turn
\* the caller receives.
Send(g) ==
    /\ pc = "send"
    /\ schedules.i < schedules.remainingThreads
    /\ Taken(g, schedules.j + schedules.i + 1)
    /\ IF schedules.i + 1 < schedules.remainingThreads
       THEN /\ pc' = "send"
            /\ schedules' = [schedules EXCEPT !.i = @ + 1]
       ELSE /\ pc' = "receive"
            /\ schedules' = [schedules EXCEPT !.i = 0]
    /\ UNCHANGED <<db, buildVars, driverVars, calVars, chanIndividualIn, chanIndividualOut>>

\* Lines 1071-1076: a result is stored at population[j+i]; after the last
\* one of the turn j advances.
Receive(g) ==
    /\ pc = "receive"
    /\ schedules.i < schedules.remainingThreads
    /\ Stored(g, schedules.j + schedules.i + 1)
    /\ IF schedules.i + 1 < schedules.remainingThreads
       THEN /\ pc' = "receive"
            /\ schedules' = [schedules EXCEPT
                                !.population[schedules.j + schedules.i + 1] =
                                    routines[g].individual,
                                !.i = @ + 1]
       ELSE /\ pc' = "batch"
            /\ schedules' = [schedules EXCEPT
                                !.population[schedules.j + schedules.i + 1] =
                                    routines[g].individual,
                                !.i = @ + 1,
                                !.j = @ + schedules.remainingThreads]
    /\ UNCHANGED <<db, buildVars, driverVars, calVars, chanIndividualIn, chanIndividualOut>>

\* Line 1080.
CloseIn ==
    /\ pc = "closeIn"
    /\ chanIndividualIn' = [closed |-> TRUE]
    /\ pc' = "closeOut"
    /\ UNCHANGED <<db, buildVars, driverVars, calVars, schedules, routines,
                   chanIndividualOut, dispatch>>

\* Line 1081.
CloseOut ==
    /\ pc = "closeOut"
    /\ chanIndividualOut' = [closed |-> TRUE]
    /\ pc' = "returned"
    /\ UNCHANGED <<db, buildVars, driverVars, calVars, schedules, routines,
                   chanIndividualIn, dispatch>>

\* Lines 1094-1163 in the goroutine g.
Evaluate(g) ==
    /\ routines[g].at = "evaluate"
    /\ routines' = [routines EXCEPT
                      ![g].individual = generateIndividualSchedule(@),
                      ![g].at = "send"]
    /\ dispatch' = [dispatch EXCEPT !.evaluated[routines[g].slot] = @ + 1]
    /\ UNCHANGED <<db, pc, buildVars, driverVars, calVars, schedules, chanIndividualIn,
                   chanIndividualOut>>

\* Lines 1088-1093: the receive from the closed channel ends the goroutine g.
Stop(g) ==
    /\ routines[g].at = "receive"
    /\ chanIndividualIn.closed
    /\ routines' = [routines EXCEPT ![g].at = "stopped"]
    /\ UNCHANGED <<db, pc, buildVars, driverVars, calVars, schedules, chanIndividualIn,
                   chanIndividualOut, dispatch>>

PoolNext ==
    \/ Call
    \/ CallEvaluated
    \/ CheckElites
    \/ \E g \in DOMAIN routines : SendElite(g)
    \/ \E g \in DOMAIN routines : ReceiveElite(g)
    \/ BeginBatch
    \/ \E g \in DOMAIN routines : Send(g)
    \/ \E g \in DOMAIN routines : Receive(g)
    \/ CloseIn
    \/ CloseOut
    \/ \E g \in DOMAIN routines : Evaluate(g)
    \/ \E g \in DOMAIN routines : Stop(g)

SpecPool == PoolInit /\ [][PoolNext]_vars

---------------------------------------------------------------------------
(* Properties of the schedule builder (SpecBuild).                         *)

\* The goroutine has sent the individual back.
Evaluated == pc = "sent"

BelowDeadend == individual.fitness < deadend * SecondsPerHour

Slots == DOMAIN individual.tasks
IDOf(i) == individual.tasks[i].taskID
AssigneesOf(i) == Range(individual.tasks[i].assignees)

\* The slot that holds task taskID.
SlotOf(taskID) == CHOOSE i \in Slots : IDOf(i) = taskID

\* C2: in an evaluated individual whose fitness is below deadend every task
\* has exactly idealWorkerCount assignees and each of them is one of the
\* task's valid workers.
C2_StaffedByValidWorkers ==
    Evaluated /\ BelowDeadend =>
        \A i \in Slots :
            /\ Len(individual.tasks[i].assignees) = tasksDB[IDOf(i)].idealWorkerCount
            /\ AssigneesOf(i) \subseteq tasksDB[IDOf(i)].validWorkers

\* An evaluated individual below deadend with a task that a worker of the
\* catalogue is not valid for, and a crew of two.
C2_Witness ==
    /\ Evaluated /\ BelowDeadend
    /\ \E i \in Slots : tasksDB[IDOf(i)].validWorkers # WorkerIDs
    /\ \E i \in Slots : Len(individual.tasks[i].assignees) = 2

\* C3: in an evaluated individual the interval [startTime, stopTime) of a task
\* meets no blocked range of any of its assignees.
C3_NoWorkDuringTimeOff ==
    Evaluated =>
        \A i \in Slots : \A w \in AssigneesOf(i) : \A r \in workersDB[w].blockedRanges :
            ~(individual.tasks[i].startTime < r.endTime
                /\ r.startTime < individual.tasks[i].stopTime)

\* C4: in an evaluated individual below deadend every task starts no earlier
\* than the stop of each of its prerequisites plus the lag, on the calendar of
\* the task's project, pinned or not.
C4_PrerequisitesPrecede ==
    Evaluated /\ BelowDeadend =>
        \A d \in Slots : \A p \in DOMAIN tasksDB[IDOf(d)].prerequisites :
            individual.tasks[d].startTime >=
                AddHours(siteOf(IDOf(d)), individual.tasks[SlotOf(p)].stopTime,
                         tasksDB[IDOf(d)].prerequisites[p])

\* C5: in an evaluated individual every task with a pinned datetime and at
\* least one assignee starts at the pinned datetime.
C5_PinnedTaskStartsAtPin ==
    Evaluated =>
        \A i \in Slots :
            /\ ~IsZero(tasksDB[IDOf(i)].pinnedDateTime)
            /\ individual.tasks[i].assignees # <<>>
            => individual.tasks[i].startTime = tasksDB[IDOf(i)].pinnedDateTime

\* An evaluated individual with a staffed pinned task that waited for a
\* prerequisite, which stopped at another time than the pin.
C5_Witness ==
    /\ Evaluated
    /\ \E i \in Slots :
        /\ ~IsZero(tasksDB[IDOf(i)].pinnedDateTime)
        /\ individual.tasks[i].assignees # <<>>
        /\ \E p \in DOMAIN tasksDB[IDOf(i)].prerequisites :
              individual.tasks[SlotOf(p)].stopTime # tasksDB[IDOf(i)].pinnedDateTime

U(ind) ==
    Cardinality({i \in DOMAIN ind.tasks :
        Len(ind.tasks[i].assignees) # tasksDB[ind.tasks[i].taskID].idealWorkerCount})

\* M: the largest stopTime - scheduleStartTime over the tasks that have a
\* stop time, in seconds; 0 when no task has one.
M(ind) ==
    LET stops == {ind.tasks[i].stopTime - scheduleStartTime :
                    i \in {j \in DOMAIN ind.tasks : ~IsZero(ind.tasks[j].stopTime)}}
    IN  IF stops = {} THEN 0 ELSE CHOOSE m \in stops : \A n \in stops : n <= m

\* The largest stopTime - scheduleStartTime over all the tasks, in seconds.  A
\* task that was never assigned has the zero time as its stop time, which lies
\* before the schedule start: its difference is negative.
MOverAllTasks(ind) ==
    LET stops == {ind.tasks[i].stopTime - scheduleStartTime : i \in DOMAIN ind.tasks}
    IN  CHOOSE m \in stops : \A n \in stops : n <= m

\* C9 as stated: the fitness of an evaluated individual is M when U = 0 and
\* U * deadend + M when U > 0, M being the maximum over all the tasks.
C9_FitnessIsPenaltyPlusMaxOverAllTasks ==
    Evaluated =>
        individual.fitness =
            IF U(individual) = 0 THEN MOverAllTasks(individual)
            ELSE U(individual) * deadend * SecondsPerHour + MOverAllTasks(individual)

\* C9, amended: the fitness of an evaluated individual is M when U = 0 and
\* U * deadend + M when U > 0, M being the maximum over the tasks that have a
\* stop time, and 0 when no task has one.
C9_FitnessIsPenaltyPlusMakespan ==
    Evaluated =>
        individual.fitness =
            IF U(individual) = 0 THEN M(individual)
            ELSE U(individual) * deadend * SecondsPerHour + M(individual)

\* An evaluated individual with two unscheduled tasks and a scheduled one.
C9_Witness == Evaluated /\ U(individual) = 2 /\ M(individual) > 0

\* The evaluated individuals of the catalogue.
EvaluatedIndividuals ==
    {generateIndividualSchedule(generateIndividual(taskOrder, workerOrder)) :
        taskOrder \in Perms(TaskIDs), workerOrder \in Perms(WorkerIDs)}

\* C10: an evaluated individual with fewer unscheduled tasks than another
\* evaluated individual of the same catalogue has the smaller fitness.
C10_FewerUnscheduledRanksFirst ==
    Evaluated =>
        \A b \in EvaluatedIndividuals :
            U(individual) < U(b) => individual.fitness < b.fitness

---------------------------------------------------------------------------
(* Properties of the driver (SpecDriver).                                  *)

\* The task sequence of ind holds every task of the catalogue exactly once.
IsPermutation(ind) ==
    /\ Len(ind.tasks) = Cardinality(TaskIDs)
    /\ {ind.tasks[k].taskID : k \in DOMAIN ind.tasks} = TaskIDs

\* C1: every individual of the initial population and of the population of
\* every generation holds every task of the catalogue exactly once.
C1_IndividualsArePermutations ==
    \A i \in DOMAIN population.individuals : IsPermutation(population.individuals[i])

\* The last generation is over, and its population holds populationSize
\* different task orders, bred by crossover and mutation.
C1_Witness ==
    /\ pc = "done"
    /\ generation = generationsLimit
    /\ Cardinality({calcIndividualHash(population.individuals[i]) :
                       i \in DOMAIN population.individuals}) = populationSize

\* What the builder returns for the task order of ind, for each order of the
\* workers.
Rebuilt(ind) ==
    {generateIndividualSchedule(generateIndividual(calcIndividualHash(ind), workerOrder)) :
        workerOrder \in Perms(WorkerIDs)}

\* C7: when generatePopulationSchedules has returned, every individual from
\* index elitesNum to the last one has the fitness and the schedule the
\* builder gives its task order.
C7_NonElitesRebuilt ==
    pc = "sort" =>
        \A i \in (elitesNum + 1)..Len(population.individuals) :
            population.individuals[i] \in Rebuilt(population.individuals[i])

\* C8: the best fitness logged for a generation is never above that logged
\* for the generation before.
C8_BestFitnessNeverIncreases ==
    \A g \in 2..Len(bestFitness) : bestFitness[g] <= bestFitness[g - 1]

\* transmogrifyPopulation has returned the population of a generation.
Transmogrified == pc \in {"schedules", "sort"} \/ generation > 0

\* The individuals of the population have pairwise different fingerprints.
DistinctIndividuals ==
    \A i, j \in DOMAIN population.individuals :
        calcIndividualHash(population.individuals[i]) = calcIndividualHash(population.individuals[j])
            => i = j

\* C11: after every generation the population holds populationSize
\* individuals with pairwise different fingerprints, and the fingerprint set
\* kept with it has populationSize entries.
C11_PopulationSizeDistinctFingerprints ==
    Transmogrified =>
        /\ Len(population.individuals) = populationSize
        /\ DistinctIndividuals
        /\ Cardinality(DOMAIN population.hashes) = populationSize

\* generatePopulation has returned and no generation has begun.
InitialPopulation == pc = "transmogrify" /\ generation = 0

\* C12: the initial population holds populationSize individuals with
\* pairwise different task orders.
C12_InitialPopulationDistinct ==
    InitialPopulation =>
        /\ Len(population.individuals) = populationSize
        /\ DistinctIndividuals

---------------------------------------------------------------------------
(* Properties of the calendar (SpecCalendar).                              *)

\* Site.AddHours has returned.
Returned == pc = "returned"

\* The start moved into the working window of a working day (lines 32-53).
NormalisedStart ==
    FirstWorkday(calendar.site, MoveToWindow(calendar.site, calendar.startTime))

\* The day of t is neither a Saturday, nor a Sunday, nor a holiday of site.
IsWorkingDay(site, t) ==
    /\ Weekday(t) # Saturday
    /\ Weekday(t) # Sunday
    /\ DateAt(t, 0) \notin site.Holidays

\* C13: for hours above 0 the instant AddHours returns is later than the start, on a working
\* day, inside (DailyStartTime, DailyEndTime] of that day and on a multiple of
\* timeRoundingSeconds.
C13_EndsOnWorkingTime ==
    Returned /\ calendar.hours > 0 =>
        /\ calendar.endTime > calendar.startTime
        /\ IsWorkingDay(calendar.site, calendar.endTime)
        /\ calendar.endTime > DateAt(calendar.endTime, calendar.site.DailyStartTime)
        /\ calendar.endTime <= DateAt(calendar.endTime, calendar.site.DailyEndTime)
        /\ calendar.endTime % timeRoundingSeconds = 0

\* The seconds of [from, to) inside the working windows of the working days
\* of site, from the day of instant day on.
RECURSIVE WorkingSecondsFrom(_, _, _, _)
WorkingSecondsFrom(site, day, from, to) ==
    IF DateAt(day, 0) >= to THEN 0
    ELSE (IF IsWorkingDay(site, day)
          THEN Max(0, Min(to, DateAt(day, site.DailyEndTime))
                          - Max(from, DateAt(day, site.DailyStartTime)))
          ELSE 0)
         + WorkingSecondsFrom(site, AddDate(day, 1), from, to)

WorkingSeconds(site, from, to) == WorkingSecondsFrom(site, from, from, to)

\* C14: for hours above 0 the instant AddHours returns is no earlier than the start plus the
\* hours, and at least the hours of site working time lie between the
\* normalised start and it.
C14_AtLeastHoursOfWorkingTime ==
    Returned /\ calendar.hours > 0 =>
        /\ calendar.endTime >= calendar.startTime + calendar.hours * SecondsPerCentiHour
        /\ WorkingSeconds(calendar.site, NormalisedStart, calendar.endTime)
               >= calendar.hours * SecondsPerCentiHour

\* The first working day of site after the day of t, at midnight.
RECURSIVE NextWorkingDay(_, _)
NextWorkingDay(site, t) ==
    IF IsWorkingDay(site, AddDate(t, 1)) THEN DateAt(AddDate(t, 1), 0)
    ELSE NextWorkingDay(site, AddDate(t, 1))

\* The working seconds left on the day of the normalised start.
LeftToday == DateAt(NormalisedStart, calendar.site.DailyEndTime) - NormalisedStart

\* The hours do not fit before DailyEndTime of the start day, and what is left
\* of them fits in one working day.
OverflowsOneDay ==
    /\ calendar.hours * SecondsPerCentiHour > LeftToday
    /\ calendar.hours * SecondsPerCentiHour - LeftToday
           <= calendar.site.DailyEndTime - calendar.site.DailyStartTime

\* C15: hours that do not fit before DailyEndTime of the start day end on the
\* next working day, as long after DailyStartTime as they exceeded the start
\* day: only Saturdays, Sundays and holidays are skipped.
C15_OverflowEndsNextWorkingDay ==
    Returned /\ OverflowsOneDay =>
        calendar.endTime =
            RoundUp(NextWorkingDay(calendar.site, NormalisedStart)
                        + calendar.site.DailyStartTime
                        + calendar.hours * SecondsPerCentiHour - LeftToday)

---------------------------------------------------------------------------
(* Properties of the pool (SpecPool).                                      *)

\* The call has returned and every goroutine has ended.
Terminated == pc = "returned" /\ \A g \in DOMAIN routines : routines[g].at = "stopped"

\* The slots the call dispatches (from 1): the elites when the first
\* individual had no fitness, and the slots after them except the last.
Dispatched ==
    {k \in DOMAIN dispatch.population :
        \/ k <= schedules.elitesNum /\ dispatch.population[1].fitness = 0
        \/ k > schedules.elitesNum /\ k < schedules.populationSize}

\* How many individuals of a slice have the task order ids.
CountOrder(individuals, ids) ==
    Cardinality({k \in DOMAIN individuals : TaskIDsOf(individuals[k]) = ids})

\* Every individual sent is taken by one goroutine, evaluated once and its
\* result received once; all results are in before the channels are closed;
\* no goroutine is left evaluating or sending when chanIndividualOut is
\* closed; at the return the slice holds the task orders it held at the
\* call, each as often as before.
DispatchedOnce ==
    /\ \A k \in DOMAIN dispatch.population :
          /\ dispatch.received[k] <= dispatch.evaluated[k]
          /\ dispatch.evaluated[k] <= dispatch.sent[k]
          /\ dispatch.sent[k] <= 1
          /\ dispatch.sent[k] = 1 => k \in Dispatched
    /\ chanIndividualIn.closed =>
          \A k \in Dispatched : dispatch.sent[k] = 1 /\ dispatch.received[k] = 1
    /\ chanIndividualOut.closed =>
          \A g \in DOMAIN routines : routines[g].at \in {"receive", "stopped"}
    /\ pc = "returned" =>
          \A ids \in PoolTaskOrders :
              CountOrder(schedules.population, ids) = CountOrder(dispatch.population, ids)

\* The caller or a goroutine can take a step: the caller is at a statement
\* that does not block, or at a send with a goroutine at its receive, or at a
\* receive with a goroutine at its send; or a goroutine evaluates, or is at
\* its receive with chanIndividualIn closed.
StepPossible ==
    \/ pc \in {"call", "elites", "batch", "closeIn", "closeOut"}
    \/ /\ pc \in {"eliteSend", "send"}
       /\ \E g \in DOMAIN routines : routines[g].at = "receive"
    \/ /\ pc \in {"eliteReceive", "receive"}
       /\ \E g \in DOMAIN routines : routines[g].at = "send"
    \/ \E g \in DOMAIN routines :
          \/ routines[g].at = "evaluate"
          \/ routines[g].at = "receive" /\ chanIndividualIn.closed

\* C16: the dispatch of generatePopulationSchedules never deadlocks, for
\* every population size, number of elites and threadsNum >= 1: until the
\* call has returned and every goroutine has ended, the caller or a goroutine
\* can take a step.  Every individual sent is evaluated once and received
\* once before the channels are closed, the task orders of the slice are
\* kept, and no goroutine sends on a closed channel.
C16_DispatchNeverDeadlocks == (Terminated \/ StepPossible) /\ DispatchedOnce

\* The call has returned after several turns of its loop, two goroutines
\* worked at the same time, and a result was stored in another slot than the
\* one its individual was sent from.
C16_Witness ==
    /\ Terminated
    /\ schedules.threadsNum > 1
    /\ schedules.threadsNum < schedules.populationSize - schedules.elitesNum - 1
    /\ \E k \in Dispatched :
          TaskIDsOf(schedules.population[k]) # TaskIDsOf(dispatch.population[k])

---------------------------------------------------------------------------
(* Properties of the loop of the schedule builder (SpecBuild).             *)

\* The individual that was sent back, copied and evaluated again.
Reevaluated == generateIndividualSchedule(copyIndividual(individual))

\* C17: evaluating a copy of an evaluated individual yields the fitness of
\* the first evaluation, whatever order of the workers and whatever schedule
\* the first evaluation left in the individual.
C17_ReevaluationKeepsFitness == Evaluated => Reevaluated.fitness = individual.fitness

\* The intervals [startTime, stopTime) of the task slots i and j do not
\* overlap.
Apart(i, j) ==
    \/ individual.tasks[i].stopTime <= individual.tasks[j].startTime
    \/ individual.tasks[j].stopTime <= individual.tasks[i].startTime

\* C18: in an evaluated individual two distinct tasks that share an assignee
\* do not overlap.
C18_NoWorkerDoubleBooked ==
    Evaluated =>
        \A i, j \in Slots : (i # j /\ AssigneesOf(i) \cap AssigneesOf(j) # {}) => Apart(i, j)

\* C19: in an evaluated individual no worker is listed twice among the
\* assignees of a task.
C19_AssigneesOfATaskDistinct ==
    Evaluated =>
        \A i \in Slots : Cardinality(AssigneesOf(i)) = Len(individual.tasks[i].assignees)

\* The number of assignees over the task slots 1..i of ind.
RECURSIVE AssigneesUpTo(_, _)
AssigneesUpTo(ind, i) ==
    IF i = 0 THEN 0 ELSE Len(ind.tasks[i].assignees) + AssigneesUpTo(ind, i - 1)

TotalAssignees(ind) == AssigneesUpTo(ind, Len(ind.tasks))

\* A pass is about to visit the first task slot.
PassBegins == pc = "tasks" /\ slot = 1

\* The loop condition of line 1098 is false.
LoopStops == pc = "pass" /\ ~workerAssigned

\* The builder after a complete pass from the current individual.
AfterPass == processTasks(Build(individual, FALSE), 1)

\* C20: a pass that assigns at least one worker ends with the loop condition
\* true, so that another pass follows; and when the loop stops, another pass
\* would assign no worker.
C20_LoopStopsOnlyAfterIdlePass ==
    /\ PassBegins =>
          (TotalAssignees(AfterPass.individual) > TotalAssignees(individual)
              => AfterPass.workerAssigned)
    /\ LoopStops => TotalAssignees(AfterPass.individual) = TotalAssignees(individual)

\* The worker w in the worker slice of ind.
WorkerOf(ind, w) ==
    ind.workers[CHOOSE k \in DOMAIN ind.workers : ind.workers[k].workerID = w]

\* The step is the slot loop of lines 1105-1117 (with the propagation that
\* follows it) for the task slot `slot`.
SlotLoop == pc = "tasks" /\ slot' = slot + 1

\* The workers whose availableAt the step has changed.
Selected ==
    {w \in WorkerIDs :
        WorkerOf(individual', w).availableAt # WorkerOf(individual, w).availableAt}

\* C21: after the slot loop of a task every worker selected in it, that is
\* every worker whose availableAt was set for the task, is among the
\* assignees of the task, and the stopTime of the task is not below its
\* stopTime before the loop nor below the stop given to any selected worker.
C21_EverySelectionKept ==
    [][SlotLoop =>
          /\ Selected \subseteq Range(individual'.tasks[slot].assignees)
          /\ \A w \in Selected :
                WorkerOf(individual', w).availableAt <= individual'.tasks[slot].stopTime
          /\ individual.tasks[slot].stopTime <= individual'.tasks[slot].stopTime]_vars

\* resetIndividual has run.
WasReset == pc \in {"pass", "tasks", "sent"}

\* The task taskID has as many assignees as its idealWorkerCount.
FullyStaffed(taskID) ==
    Len(individual.tasks[SlotOf(taskID)].assignees) = tasksDB[taskID].idealWorkerCount

\* The prerequisites of the task in slot i that are not fully staffed.
OpenPrerequisites(i) ==
    {taskID \in DOMAIN tasksDB[IDOf(i)].prerequisites : ~FullyStaffed(taskID)}

\* C22: at every moment of an evaluation the numPrerequisites counter of a
\* task is the number of its prerequisites that are not fully staffed: it
\* loses one for each prerequisite in the step in which that prerequisite
\* gets its last assignee and at no other time, is never negative, and is 0
\* exactly when all prerequisites are fully staffed.
C22_CounterIsOpenPrerequisites ==
    WasReset =>
        \A i \in Slots : individual.tasks[i].numPrerequisites = Cardinality(OpenPrerequisites(i))

\* An evaluated individual in which a task with two prerequisites, one of
\* them a crew of two, has got both of them.
C22_Witness ==
    /\ Evaluated
    /\ \E i \in Slots :
          /\ Cardinality(DOMAIN tasksDB[IDOf(i)].prerequisites) = 2
          /\ \E taskID \in DOMAIN tasksDB[IDOf(i)].prerequisites :
                tasksDB[taskID].idealWorkerCount = 2
          /\ individual.tasks[i].numPrerequisites = 0

\* The number of assignee slots of the catalogue.
RECURSIVE IdealUpTo(_, _)
IdealUpTo(ind, i) ==
    IF i = 0 THEN 0
    ELSE tasksDB[ind.tasks[i].taskID].idealWorkerCount + IdealUpTo(ind, i - 1)

TotalIdeal(ind) == IdealUpTo(ind, Len(ind.tasks))

\* C23: the outer loop of the builder terminates for every catalogue and
\* every order of the tasks: a pass that is followed by another pass (it
\* ends with workerAssigned true) leaves more assignees than it found, and
\* the number of assignees never exceeds the number of assignee slots of the
\* catalogue, so the passes are at most that number plus one.
C23_PassesAreBounded ==
    /\ TotalAssignees(individual) <= TotalIdeal(individual)
    /\ PassBegins =>
          (AfterPass.workerAssigned
              => TotalAssignees(AfterPass.individual) > TotalAssignees(individual))

\* The loop has ended and the individual was sent back although a task
\* waits for a task that waits for it.
C23_Witness ==
    /\ Evaluated
    /\ \E i \in Slots : \E taskID \in DOMAIN tasksDB[IDOf(i)].prerequisites :
          IDOf(i) \in DOMAIN tasksDB[taskID].prerequisites

---------------------------------------------------------------------------
(* Properties of the breeding loop (SpecDriver).                           *)

\* The loop of transmogrifyPopulation has to add individuals, and every
\* order of the tasks is already in the new population: no child can be new.
NoChildCanBeNew ==
    /\ pc = "breed"
    /\ remainingIndividualsNumber > 0
    /\ Perms(TaskIDs) \subseteq DOMAIN newPopulation.hashes

\* C24: the breeding loop of transmogrifyPopulation terminates and returns
\* populationSize individuals, also when the catalogue has fewer orders of
\* its tasks than populationSize: the loop is never in a state in which it
\* must go on and no child can be new, and the population it returns has
\* populationSize individuals.
C24_BreedingLoopTerminates ==
    /\ ~NoChildCanBeNew
    /\ pc = "schedules" => Len(population.individuals) = populationSize

---------------------------------------------------------------------------
(* The stagnation handling alone: the generations of main's loop, with the *)
(* population a generation ends with drawn from a small set.               *)

\* The generations followed.
MaxGenerations == 56

\* The fitnesses of the populations a generation can end with, best first:
\* the first two have the same sum of the three best.
StagnantFitnesses ==
    {<<1 * SecondsPerHour, 2 * SecondsPerHour, 3 * SecondsPerHour, 5 * SecondsPerHour, 5 * SecondsPerHour>>,
     <<2 * SecondsPerHour, 2 * SecondsPerHour, 2 * SecondsPerHour, 5 * SecondsPerHour, 5 * SecondsPerHour>>,
     <<1 * SecondsPerHour, 2 * SecondsPerHour, 4 * SecondsPerHour, 5 * SecondsPerHour, 5 * SecondsPerHour>>}

StagnantPopulations ==
    {[i \in 1..populationSize |-> [NoIndividual EXCEPT !.fitness = fitnesses[i]]] :
        fitnesses \in StagnantFitnesses}

\* Lines 1309-1310.
StagnationInit ==
    /\ db = CatLag
    /\ pc = "generation"
    /\ mapRange = [tasks |-> <<>>, workers |-> <<>>]
    /\ rand \in 0..MaxSeed
    /\ population = NoPopulation
    /\ newPopulation = NoPopulation
    /\ remainingIndividualsNumber = 0
    /\ generation = 0
    /\ stagnant = [number |-> 0, fitness |-> 0]
    /\ bestFitness = <<>>
    /\ breedTurns = 0
    /\ SourceSettings
    /\ TourneyIdle
    /\ CrossoverIdle
    /\ BuilderIdle
    /\ CalendarIdle
    /\ PoolIdle

\* Lines 1311-1359, one turn of main's loop.  The population that
\* transmogrifyPopulation, generatePopulationSchedules and sortPopulation
\* leave is drawn, and the log of the best fitness is not followed.
Generation ==
    /\ pc = "generation"
    /\ generation < MaxGenerations
    /\ \E sorted \in StagnantPopulations :
        /\ population' = [population EXCEPT !.individuals = sorted]
        /\ BreakStagnation(Stagnation(stagnant, sorted))
    /\ generation' = generation + 1
    /\ UNCHANGED <<calVars, poolVars, tourney, crossover, db, pc, buildVars, mapRange, newPopulation,
                   remainingIndividualsNumber, bestFitness, breedTurns>>

StagnationNext == Generation

SpecStagnation == StagnationInit /\ [][StagnationNext]_vars

---------------------------------------------------------------------------
(* Properties of the stagnation handling (SpecStagnation).                 *)

\* The sum of the three best fitnesses.
TopThree(individuals) ==
    individuals[1].fitness + individuals[2].fitness + individuals[3].fitness

\* A generation ends and finds the sum of the three best as it was.
SumUnchanged == generation' = generation + 1 /\ TopThree(population'.individuals) = stagnant.fitness

\* A generation ends and finds another sum.
SumChanged == generation' = generation + 1 /\ TopThree(population'.individuals) # stagnant.fitness

\* The settings are drawn in their ranges and the counter starts anew.
SettingsRedrawn ==
    /\ tourneySampleSize' \in 10..100
    /\ crossoverParentsNumber' \in 2..4
    /\ maxCrossoverLength' \in 10..100
    /\ maxMutatedGenes' \in 10..100
    /\ mutationTypePreference' \in 0..10
    /\ rand' # rand
    /\ stagnant'.number = 0

\* The settings keep their values and nothing is drawn.
SettingsKept == UNCHANGED <<settings, rand>>

\* In this generation the sum is found unchanged for the n-th time in a row.
UnchangedFor(n) == SumUnchanged /\ stagnant.number + 1 = n

\* The rule of the counter with the settings drawn again at the n-th
\* unchanged generation in a row.
RedrawnAt(n) ==
    /\ UnchangedFor(n) => SettingsRedrawn
    /\ SumUnchanged /\ ~UnchangedFor(n) => SettingsKept /\ stagnant'.number = stagnant.number + 1
    /\ SumChanged => SettingsKept /\ stagnant'.number = 0
                        /\ stagnant'.fitness = TopThree(population'.individuals)

\* C29 as stated: the settings are drawn again in their ranges and the
\* counter is reset exactly when the sum of the three best fitnesses has stayed
\* unchanged for 50 generations in a row, and a change of the sum resets the
\* counter to 0.
C29_SettingsRedrawnAfter50 == [][RedrawnAt(50)]_vars

\* C29 amended: the settings are drawn again in their ranges and the counter
\* is reset exactly when the sum of the three best fitnesses is found
\* unchanged for the 51st generation in a row (the counter passes 50); an
\* unchanged sum before that adds 1 to the counter, and a change of the sum
\* resets the counter to 0.
C29_SettingsRedrawnAfter51 == [][RedrawnAt(51)]_vars

\* The settings have been drawn again in generation 52, after the sum was
\* set in the first generation and found unchanged 51 times.
C29_Witness ==
    /\ generation = 52
    /\ stagnant.number = 0
    /\ tourneySampleSize >= 10

---------------------------------------------------------------------------
(* tourneySelect alone: one call, a turn of its loop at a time.            *)

\* The fitnesses of the individuals of the populations, in seconds; 0 is
\* that of an individual never evaluated.
TourneyFitnesses == {0, SecondsPerHour, 2 * SecondsPerHour}

\* The populations a call is made with: populationSize individuals, sorted
\* by fitness as sortPopulation leaves them or none evaluated.
TourneyPopulations ==
    {[k \in 1..populationSize |-> [NoIndividual EXCEPT !.fitness = fitnesses[k]]] :
        fitnesses \in {f \in [1..populationSize -> TourneyFitnesses] :
                          \A k \in 1..(populationSize - 1) : f[k] <= f[k + 1]}}

\* Line 811, with settings up to the size of the population.
TourneyInit ==
    /\ db = CatLag
    /\ pc = "call"
    /\ tourneySampleSize \in 1..populationSize
    /\ crossoverParentsNumber \in 2..4
    /\ maxCrossoverLength = 3
    /\ maxMutatedGenes = 3
    /\ mutationTypePreference = 5
    /\ rand \in 0..MaxSeed
    /\ \E individuals \in TourneyPopulations :
        tourney = [population |-> individuals, number |-> crossoverParentsNumber, i |-> 0,
                   sampleOrder |-> <<>>, len |-> 0, rand |-> 0, bestIndividuals |-> <<>>,
                   selected |-> <<>>]
    /\ mapRange = [tasks |-> <<>>, workers |-> <<>>]
    /\ population = NoPopulation
    /\ newPopulation = NoPopulation
    /\ remainingIndividualsNumber = 0
    /\ generation = 0
    /\ stagnant = [number |-> 0, fitness |-> 0]
    /\ bestFitness = <<>>
    /\ breedTurns = 0
    /\ CrossoverIdle
    /\ BuilderIdle
    /\ CalendarIdle
    /\ PoolIdle

\* Lines 845-852: the call draws the order of the samples.
CallTourneySelect ==
    /\ pc = "call"
    /\ \E sampleOrder \in {Perm(rand, Len(tourney.population))} :
        /\ tourney' = [tourney EXCEPT !.sampleOrder = sampleOrder[1],
                                      !.len = Len(tourney.population),
                                      !.rand = sampleOrder[2]]
        /\ rand' = sampleOrder[2]
    /\ pc' = "rounds"
    /\ UNCHANGED <<calVars, poolVars, crossover, settings, db, buildVars, mapRange, population, newPopulation,
                   remainingIndividualsNumber, generation, stagnant, bestFitness, breedTurns>>

\* Lines 854-884: one turn of the loop; the index of the best is remembered.
SelectBest ==
    /\ pc = "rounds"
    /\ tourney.i < tourney.number
    /\ \E st \in {TourneyRound(tourney.population, tourney)} :
        /\ tourney' = [st EXCEPT
                          !.i = tourney.i + 1,
                          !.selected = Append(tourney.selected,
                                              Tourney(tourney.population, tourney.sampleOrder,
                                                      0, NoBest).bestIndividualNumber)]
        /\ rand' = st.rand
    /\ UNCHANGED <<calVars, poolVars, crossover, settings, db, pc, buildVars, mapRange, population, newPopulation,
                   remainingIndividualsNumber, generation, stagnant, bestFitness, breedTurns>>

\* Line 886.
ReturnBest ==
    /\ pc = "rounds"
    /\ tourney.i >= tourney.number
    /\ pc' = "returned"
    /\ UNCHANGED <<calVars, poolVars, tourney, crossover, settings, db, buildVars, mapRange, rand, population,
                   newPopulation, remainingIndividualsNumber, generation, stagnant, bestFitness,
                   breedTurns>>

TourneyNext == CallTourneySelect \/ SelectBest \/ ReturnBest

SpecTourney == TourneyInit /\ [][TourneyNext]_vars

---------------------------------------------------------------------------
(* Properties of tourneySelect (SpecTourney).                              *)

\* The indices the next turn of the loop samples.
Sampled == {tourney.sampleOrder[j] : j \in 1..tourneySampleSize}

\* C25: tourneySelect returns number individuals taken from pairwise
\* distinct indices of the population: an index selected in one turn is not
\* among the samples of a later turn and is not selected again, for every
\* tourneySampleSize up to the size of the population.
C25_SelectedIndicesDistinct ==
    /\ \A a, b \in DOMAIN tourney.selected :
          a # b => tourney.selected[a] # tourney.selected[b]
    /\ pc = "rounds" /\ tourney.i < tourney.number =>
          Sampled \cap Range(tourney.selected) = {}
    /\ pc = "returned" => Len(tourney.bestIndividuals) = tourney.number

---------------------------------------------------------------------------
(* crossoverIndividualsOX1 alone: one call.                                *)

\* The states of the generator at the call, spread over its range.
CrossoverSeeds == {1009 * seed : seed \in 0..MaxSeed}

\* The parents of a call: crossoverParentsNumber individuals over the tasks
\* of the catalogue.
CrossoverParents ==
    [1..crossoverParentsNumber ->
        {generateIndividual(taskOrder, <<"W1", "W2">>) : taskOrder \in Perms(TaskIDs)}]

\* Line 813, with 2 to 4 parents.
CrossoverInit ==
    /\ db = CatLag
    /\ pc = "crossover"
    /\ tourneySampleSize = 3
    /\ crossoverParentsNumber \in 2..4
    /\ maxCrossoverLength = 3
    /\ maxMutatedGenes = 3
    /\ mutationTypePreference = 5
    /\ rand \in CrossoverSeeds
    /\ \E parentIndividuals \in CrossoverParents :
        crossover = [parentIndividuals |-> parentIndividuals, crossed |-> FALSE,
                     crossoverStart |-> 0, crossoverEnd |-> 0, childIndividuals |-> <<>>]
    /\ mapRange = [tasks |-> <<>>, workers |-> <<>>]
    /\ population = NoPopulation
    /\ newPopulation = NoPopulation
    /\ remainingIndividualsNumber = 0
    /\ generation = 0
    /\ stagnant = [number |-> 0, fitness |-> 0]
    /\ bestFitness = <<>>
    /\ breedTurns = 0
    /\ TourneyIdle
    /\ BuilderIdle
    /\ CalendarIdle
    /\ PoolIdle

\* Lines 943-995: the call; the locals crossoverStart and crossoverEnd are
\* kept with the result.
CrossoverIndividualsOX1 ==
    /\ pc = "crossover"
    /\ \E children \in {crossoverIndividualsOX1(crossover.parentIndividuals, rand)} :
        /\ crossover' =
              [crossover EXCEPT
                  !.crossed = Float32Below(rand, crossoverRate),
                  !.crossoverStart = Intn(Next(rand), Len(crossover.parentIndividuals[1].tasks)),
                  !.crossoverEnd =
                      Min(Intn(Next(rand), Len(crossover.parentIndividuals[1].tasks))
                              + Intn(Next(Next(rand)), maxCrossoverLength),
                          Len(crossover.parentIndividuals[1].tasks)),
                  !.childIndividuals = children[1]]
        /\ rand' = children[2]
    /\ pc' = "crossed"
    /\ UNCHANGED <<calVars, poolVars, tourney, settings, db, buildVars, mapRange, population,
                   newPopulation, remainingIndividualsNumber, generation, stagnant, bestFitness,
                   breedTurns>>

CrossoverNext == CrossoverIndividualsOX1

SpecCrossover == CrossoverInit /\ [][CrossoverNext]_vars

---------------------------------------------------------------------------
(* Properties of crossoverIndividualsOX1 (SpecCrossover).                  *)

\* The task IDs of parent i (from 0) of the call.
ParentIDs(i) == TaskIDsOf(crossover.parentIndividuals[i + 1])

\* The slice [crossoverStart, crossoverEnd) of parent i.
SliceOf(i) == SubSeq(ParentIDs(i), crossover.crossoverStart + 1, crossover.crossoverEnd)

\* The task IDs of parent j in its order, without those of the slice of parent i.
RestOf(i, j) == SelectSeq(ParentIDs(j), LAMBDA taskID : taskID \notin Range(SliceOf(i)))

\* The slice of parent i in its place and the rest of parent j around it.
SliceWithin(i, j) ==
    SubSeq(RestOf(i, j), 1, crossover.crossoverStart)
        \o SliceOf(i)
        \o SubSeq(RestOf(i, j), crossover.crossoverStart + 1, Len(RestOf(i, j)))

\* The call has returned and the crossover was made.
Crossed == pc = "crossed" /\ crossover.crossed

\* C26: after an OX1 crossover of k parents, k in 2..4, with the slice
\* [crossoverStart, crossoverEnd), child i holds the tasks of parent i in the
\* slice and, in the other positions from left to right, the tasks of parent
\* (i + 1) mod k in that parent's order without the tasks of the slice.
C26_ChildFilledFromNextParent ==
    Crossed =>
        \A i \in 0..(crossoverParentsNumber - 1) :
            TaskIDsOf(crossover.childIndividuals[i + 1])
                = SliceWithin(i, (i + 1) % crossoverParentsNumber)

---------------------------------------------------------------------------
(* Properties of the pinned datetime (SpecBuild).                          *)

\* The builder calls assignBestWorker for the task of the slot, and the
\* task is pinned to a datetime.
PinnedCall ==
    /\ SlotLoop
    /\ ~IsZero(tasksDB[IDOf(slot)].pinnedDateTime)
    /\ Len(individual.tasks[slot].assignees) < tasksDB[IDOf(slot)].idealWorkerCount
    /\ individual.tasks[slot].numPrerequisites = 0

\* The workers as scored for the task of the slot that are valid for it and
\* pass its pinned-worker filter.
Candidates ==
    {w \in Range(calculateWorkersFitness(individual.tasks[slot], individual.workers)) :
        /\ w.workerID \in tasksDB[IDOf(slot)].validWorkers
        /\ tasksDB[IDOf(slot)].pinnedWorkerIDs # {}
              => w.workerID \in tasksDB[IDOf(slot)].pinnedWorkerIDs}

\* AddHours(newStart, pinnedDateTimeSnap) of candidate w.
SnappedStart(w) ==
    AddHours(siteOf(IDOf(slot)), NewStartTime(IDOf(slot), w), pinnedDateTimeSnap)

\* AddHours(P, pinnedDateTimeSnap).
SnappedPin ==
    AddHours(siteOf(IDOf(slot)), tasksDB[IDOf(slot)].pinnedDateTime, pinnedDateTimeSnap)

\* The candidates whose snapped start is at or after the pinned datetime and
\* before the snapped pin.
FromPin ==
    {w.workerID : w \in {c \in Candidates :
        tasksDB[IDOf(slot)].pinnedDateTime <= SnappedStart(c) /\ SnappedStart(c) < SnappedPin}}

\* The candidates whose snapped start is after the pinned datetime and
\* before the snapped pin.
AfterPin ==
    {w.workerID : w \in {c \in Candidates :
        tasksDB[IDOf(slot)].pinnedDateTime < SnappedStart(c) /\ SnappedStart(c) < SnappedPin}}

\* C27 as stated: for a task pinned at P, a candidate with newStart =
\* AddHours(availableAt, driving hours) is accepted exactly when
\* P <= AddHours(newStart, pinnedDateTimeSnap) < AddHours(P, pinnedDateTimeSnap):
\* the workers taken are among these candidates, and one is taken when there
\* is one.
C27_AcceptedFromPin ==
    [][PinnedCall => Selected \subseteq FromPin /\ (FromPin # {} => Selected # {})]_vars

\* C27 amended: for a task pinned at P, a candidate is accepted exactly when
\* P < AddHours(newStart, pinnedDateTimeSnap) < AddHours(P, pinnedDateTimeSnap).
C27_AcceptedAfterPin ==
    [][PinnedCall => Selected \subseteq AfterPin /\ (AfterPin # {} => Selected # {})]_vars

\* A pinned task has taken a worker and starts at its pinned datetime.
C27_Witness ==
    \E i \in Slots :
        /\ ~IsZero(tasksDB[IDOf(i)].pinnedDateTime)
        /\ individual.tasks[i].assignees # <<>>
        /\ individual.tasks[i].startTime = tasksDB[IDOf(i)].pinnedDateTime

---------------------------------------------------------------------------
(* Properties of calculateWorkersFitness (SpecBuild).                      *)

\* The builder scores the workers for the task of the slot.
WorkersScored ==
    /\ SlotLoop
    /\ Len(individual.tasks[slot].assignees) < tasksDB[IDOf(slot)].idealWorkerCount
    /\ individual.tasks[slot].numPrerequisites = 0

\* The fitness worker w has after the step.
ScoreOf(w) == WorkerOf(individual', w).fitness

\* C28: after calculateWorkersFitness has scored the workers for a task,
\* every worker the task pins has the largest fitness there is, and so a
\* fitness not below that of any worker the task does not pin.
C28_PinnedWorkersScoreHighest ==
    [][WorkersScored =>
          \A w \in tasksDB[IDOf(slot)].pinnedWorkerIDs \cap WorkerIDs :
              /\ ScoreOf(w) = MaxFloat32
              /\ \A u \in WorkerIDs \ tasksDB[IDOf(slot)].pinnedWorkerIDs :
                    ScoreOf(w) >= ScoreOf(u)]_vars

---------------------------------------------------------------------------
(* Properties of adding no hours (SpecCalendar).                           *)

\* The start of the call is on a working day of the site, inside
\* [DailyStartTime, DailyEndTime] and on a multiple of timeRoundingSeconds.
WorkingInstant ==
    /\ IsWorkingDay(calendar.site, calendar.startTime)
    /\ calendar.startTime >= DateAt(calendar.startTime, calendar.site.DailyStartTime)
    /\ calendar.startTime <= DateAt(calendar.startTime, calendar.site.DailyEndTime)
    /\ calendar.startTime % timeRoundingSeconds = 0

\* C30: adding zero working hours to an instant that lies inside
\* [DailyStartTime, DailyEndTime] of a working day, on a ten-minute boundary,
\* returns that instant.
C30_ZeroHoursIsIdentity ==
    Returned /\ calendar.hours = 0 /\ WorkingInstant => calendar.endTime = calendar.startTime

=============================================================================
